---- MODULE Spec2Model ----
(***************************************************************************)
(* A model of the russtat engine (rsengine.py): the dataset catalog        *)
(* (Russtat.update_dataset_list), the single fetch-and-parse job           *)
(* (Russtat.get_one) and the batch orchestrator (Russtat.get_many) that    *)
(* runs get_one on a Dask cluster and polls a shared stop flag.            *)
(* The catalog filters (Russtat.filter_datasets_only_new / _existing) and  *)
(* the classifier tree of psdb.py (Russtatdb.get_classificator and its     *)
(* two rendering passes) are pure functions and have specifications of     *)
(* their own.                                                              *)
(*                                                                         *)
(* Python values that reach get_one are dynamically typed; they are        *)
(* modelled as tagged records of one shape (see Val below) so that the     *)
(* runtime type tests of the code (isinstance, truthiness, == 'auto')      *)
(* are computed as the interpreter computes them.                          *)
(***************************************************************************)
EXTENDS Integers, Sequences, FiniteSets, TLC

VARIABLES
    datasets,   \* Russtat.datasets: the catalog, a sequence of descriptor ids
    files,      \* the data directory: file name -> content
    stopped,    \* Russtat._stopped (Dask Variable 'stopcheck')
    tasks,      \* the get_one invocations of the current call (futures)
    run,        \* the current top-level call (get_one / get_many) and its result
    calls,      \* number of top-level calls made so far
    runs,       \* number of get_many calls made so far
    cat         \* the update_dataset_list call in progress (call stack, result)

vars == <<datasets, files, stopped, tasks, run, calls, runs, cat>>

(***************************************************************************)
(* Bounds                                                                  *)
(***************************************************************************)
MaxJobs == 2        \* longest descriptor list handed to get_many
NWorkers == 2       \* workers of the Dask cluster (threads_per_worker = 1)
MaxCalls == 2       \* top-level calls per behaviour
MaxRuns == 1        \* get_many calls per behaviour
RecursionLimit == 3 \* depth at which the interpreter raises RecursionError

(***************************************************************************)
(* Python values                                                           *)
(***************************************************************************)
PyNone == [k |-> "none", s |-> "", b |-> FALSE, d |-> 0, l |-> <<>>]
PyStr(x) == [k |-> "str", s |-> x, b |-> FALSE, d |-> 0, l |-> <<>>]
PyBool(x) == [k |-> "bool", s |-> "", b |-> x, d |-> 0, l |-> <<>>]
PyDict(i) == [k |-> "dict", s |-> "", b |-> FALSE, d |-> i, l |-> <<>>]
PyFn == [k |-> "fn", s |-> "", b |-> FALSE, d |-> 0, l |-> <<>>]
PyList(xs) == [k |-> "list", s |-> "", b |-> FALSE, d |-> 0, l |-> xs]

\* bool(v)
Truthy(v) ==
    CASE v.k = "none" -> FALSE
      [] v.k = "bool" -> v.b
      [] v.k = "str" -> v.s # ""
      [] v.k = "list" -> v.l # <<>>
      [] OTHER -> TRUE

\* v == 'auto'
IsAuto(v) == v.k = "str" /\ v.s = "auto"

\* globs.is_iterable: strings are not iterable, lists are
is_iterable(v) == v.k = "list"

(***************************************************************************)
(* Dataset descriptors (entries of the catalog)                            *)
(***************************************************************************)
Desc(i) ==
    CASE i = 1 -> [hasId |-> TRUE, identifier |-> "a", title |-> "ta", link |-> TRUE, format |-> "xml"]
      [] i = 2 -> [hasId |-> TRUE, identifier |-> "b", title |-> "tb", link |-> TRUE, format |-> "xml"]
      [] i = 3 -> [hasId |-> FALSE, identifier |-> "", title |-> "tc", link |-> TRUE, format |-> "xml"]
      [] OTHER -> [hasId |-> TRUE, identifier |-> "d", title |-> "td", link |-> TRUE, format |-> "csv"]

\* dataset.get('identifier', 'dataset')
IdOrDefault(v) == IF Desc(v.d).hasId THEN Desc(v.d).identifier ELSE "dataset"

\* the characters of the strings that are searched or searched for
Chars(s) ==
    CASE s = "auto" -> <<"a", "u", "t", "o">>
      [] s = "ta" -> <<"t", "a">>
      [] s = "tb" -> <<"t", "b">>
      [] s = "tc" -> <<"t", "c">>
      [] s = "td" -> <<"t", "d">>
      [] s = "a.xml" -> <<"a", ".", "x", "m", "l">>
      [] s = "b.xml" -> <<"b", ".", "x", "m", "l">>
      [] s = "dataset.xml" -> <<"d", "a", "t", "a", "s", "e", "t", ".", "x", "m", "l">>
      [] s = "a.json" -> <<"a", ".", "j", "s", "o", "n">>
      [] s = "b.json" -> <<"b", ".", "j", "s", "o", "n">>
      [] s = "dataset.json" -> <<"d", "a", "t", "a", "s", "e", "t", ".", "j", "s", "o", "n">>
      [] OTHER -> <<>>

\* str.lower() on the alphabet of the model
Lower(cs) == [i \in 1..Len(cs) |-> IF cs[i] = "A" THEN "a" ELSE IF cs[i] = "T" THEN "t" ELSE cs[i]]

\* p in t
Contains(p, t) ==
    \E i \in 0..Len(t) : i + Len(p) <= Len(t) /\ SubSeq(t, i + 1, i + Len(p)) = p

\* find_datasets(pattern) with regex=False, case_sense=False, fullmatch=False,
\* on a populated catalog
find_datasets(pattern) ==
    LET match(i) == Contains(Lower(Chars(pattern)), Lower(Chars(Desc(i).title)))
    IN SelectSeq(datasets, match)

(***************************************************************************)
(* Texts, numbers and timestamps of a dataset document                     *)
(***************************************************************************)
\* the text of an element or attribute, or its absence
Txt(t) == [has |-> TRUE, t |-> t]
NoTxt == [has |-> FALSE, t |-> <<>>]
NoDate == [has |-> FALSE, t |-> ""]

IsDigit(c) == c \in {"0", "1", "2", "3", "4", "5", "6", "7", "8", "9"}

DigitVal(c) ==
    CASE c = "1" -> 1 [] c = "2" -> 2 [] c = "3" -> 3 [] c = "4" -> 4 [] c = "5" -> 5
      [] c = "6" -> 6 [] c = "7" -> 7 [] c = "8" -> 8 [] c = "9" -> 9 [] OTHER -> 0

RECURSIVE DigitsVal(_)
DigitsVal(cs) ==
    IF cs = <<>> THEN 0 ELSE 10 * DigitsVal(SubSeq(cs, 1, Len(cs) - 1)) + DigitVal(cs[Len(cs)])

\* str.strip()
RECURSIVE Strip(_)
Strip(cs) ==
    IF cs = <<>> THEN cs
    ELSE IF cs[1] = " " THEN Strip(Tail(cs))
    ELSE IF cs[Len(cs)] = " " THEN Strip(SubSeq(cs, 1, Len(cs) - 1))
    ELSE cs

\* _get_text / _get_attr on a node that may be missing: the stripped text, or
\* the default (lines 270-280, 296-308)
_get_text(x, default) == IF x.has THEN Strip(x.t) ELSE default

\* a lookup that does not test the node for None
_get_date_NoDefault(x, default) == x.t

_get_date(x, default) == IF x.has THEN x.t ELSE default

\* int(text) on the alphabet of the model: ValueError unless all digits
PyInt(cs) ==
    LET t == Strip(cs)
    IN IF t # <<>> /\ \A i \in 1..Len(t) : IsDigit(t[i])
       THEN [ok |-> TRUE, v |-> DigitsVal(t)]
       ELSE [ok |-> FALSE, v |-> 0]

\* a float as a decimal: n / 10^e, without trailing zeros
Float(n, e) == [n |-> n, e |-> e]

RECURSIVE NoTrailingZeros(_)
NoTrailingZeros(cs) ==
    IF cs # <<>> /\ cs[Len(cs)] = "0" THEN NoTrailingZeros(SubSeq(cs, 1, Len(cs) - 1)) ELSE cs

\* the replacement of the decimal comma left out
Normalize_SpacesOnly(cs) ==
    LET notSpace(c) == c # " "
    IN SelectSeq(cs, notSpace)

\* text.replace(',', '.').replace(' ', '') (line 371)
Normalize(cs) ==
    LET notSpace(c) == c # " "
    IN SelectSeq([i \in 1..Len(cs) |-> IF cs[i] = "," THEN "." ELSE cs[i]], notSpace)

\* float(text) on the alphabet of the model: digits around at most one point
FloatOf(t) ==
    LET dots == {i \in 1..Len(t) : t[i] = "."}
        dot == IF dots = {} THEN Len(t) + 1 ELSE CHOOSE i \in dots : TRUE
        ip == SubSeq(t, 1, dot - 1)
        fp == NoTrailingZeros(SubSeq(t, dot + 1, Len(t)))
        digits(x) == \A i \in 1..Len(x) : IsDigit(x[i])
    IN IF Cardinality(dots) <= 1 /\ digits(ip) /\ digits(fp) /\ Len(t) > Cardinality(dots)
       THEN [ok |-> TRUE, v |-> Float(DigitsVal(ip \o fp), Len(fp))]
       ELSE [ok |-> FALSE, v |-> Float(0, 0)]

PyFloat(cs) == FloatOf(Normalize(cs))

\* a datetime: hours on the calendar of the model and microseconds; form tells
\* a native datetime ("dt") from its text in a JSON file ("str")
Time(h, us) == [h |-> h, us |-> us, form |-> "dt"]

\* datetime.fromisoformat(text) on the texts of the model
fromisoformat(t) ==
    CASE t = "1900-01-01" -> [ok |-> TRUE, v |-> Time(0, 0)]
      [] t = "2020-05-01T10:00:00" -> [ok |-> TRUE, v |-> Time(1000, 0)]
      [] t = "2020-05-01T10:00:00.250000" -> [ok |-> TRUE, v |-> Time(1000, 250000)]
      [] t = "2020-05-02T00:00:00" -> [ok |-> TRUE, v |-> Time(1014, 0)]
      [] OTHER -> [ok |-> FALSE, v |-> Time(0, 0)]

\* datetime.strptime(text, '%d.%m.%Y') on the texts of the model
strptime_dmy(t) ==
    CASE t = "01.01.1900" -> [ok |-> TRUE, v |-> Time(0, 0)]
      [] t = "01.06.2020" -> [ok |-> TRUE, v |-> Time(1734, 0)]
      [] OTHER -> [ok |-> FALSE, v |-> Time(0, 0)]

\* value - timedelta(hours=3)
Minus3h(v) == [v EXCEPT !.h = @ - 3]

\* str(datetime), through json.dump(default=str): 'YYYY-MM-DD HH:MM:SS', with
\* '.ffffff' appended when the microseconds are not zero
DateStr(v) == [v EXCEPT !.form = "str"]

\* datetime.strptime(text, '%Y-%m-%d %H:%M:%S') in json_hook (line 483):
\* ValueError when a fraction follows the seconds
strptime_ymdhms(v) == [ok |-> v.form = "str" /\ v.us = 0, v |-> [v EXCEPT !.form = "dt"]]

(***************************************************************************)
(* Files, documents and dataset records                                    *)
(***************************************************************************)
\* a series of the DataSet block: the concept-tagged attributes, the keyed
\* values of the series key, the text of Obs/Time and the value of Obs/ObsValue
Series(attrs, key, year, val) == [attrs |-> attrs, key |-> key, year |-> year, val |-> val]

Pairs(vals) == [has |-> TRUE, vals |-> vals]
NoPairs == [has |-> FALSE, vals |-> <<>>]

Series1 ==
    Series(Pairs(<< <<"EI", "u">>, <<"PERIOD", "p">> >>),
           Pairs(<< <<"c1", "k1">>, <<"c1", "k2">> >>),
           Txt(<<"2", "0", "1", "9">>), Txt(<<"1", ",", "5">>))

Series2 ==
    Series(Pairs(<< <<"PERIOD", "q">>, <<"EI", "w">> >>),
           Pairs(<< <<"c1", "k2">> >>),
           Txt(<<" ", "2", "0", "2", "0">>), Txt(<<"1", " ", "0", "0", "0", ",", "5", "0">>))

\* a well-formed document with every block
GoodDoc ==
    [wf |-> TRUE, header |-> TRUE, prepared |-> Txt("2020-05-01T10:00:00"),
     codelists |-> TRUE,
     lists |-> << [id |-> "c1", name |-> "N1", values |-> << <<"k1", "L1">>, <<"k2", "L2">> >>] >>,
     desc |-> TRUE, next |-> Txt("01.06.2020"),
     start |-> Txt(<<"2", "0", "0", "0">>), end |-> Txt(<<"2", "0", "2", "0">>),
     updated |-> Txt("2020-05-02T00:00:00"),
     dataset |-> TRUE, series |-> <<Series1>>]

\* the documents of the model, by name
Doc(name) ==
    CASE name = "malformed" -> [GoodDoc EXCEPT !.wf = FALSE]
      [] name = "nodesc" -> [GoodDoc EXCEPT !.desc = FALSE]
      [] name = "nohdr" -> [GoodDoc EXCEPT !.header = FALSE, !.prepared = NoDate]
      [] name = "nocodes" -> [GoodDoc EXCEPT !.codelists = FALSE, !.lists = <<>>]
      [] name = "noprep" -> [GoodDoc EXCEPT !.prepared = NoDate]
      [] name = "badprep" -> [GoodDoc EXCEPT !.prepared = Txt("01.05.2020")]
      [] name = "fracprep" -> [GoodDoc EXCEPT !.prepared = Txt("2020-05-01T10:00:00.250000")]
      [] name = "badnext" -> [GoodDoc EXCEPT !.next = Txt("2020-06-01")]
      [] name = "badupd" -> [GoodDoc EXCEPT !.updated = Txt("02.05.2020")]
      [] name = "badstart" -> [GoodDoc EXCEPT !.start = Txt(<<"x">>)]
      [] name = "badend" -> [GoodDoc EXCEPT !.end = Txt(<<"2", "0", ".", "5">>)]
      [] name = "norange" -> [GoodDoc EXCEPT !.start = NoTxt, !.end = NoTxt]
      [] name = "nodata" -> [GoodDoc EXCEPT !.dataset = FALSE, !.series = <<>>]
      [] name = "two" -> [GoodDoc EXCEPT !.series = <<Series1, Series2>>]
      [] name = "nokey" -> [GoodDoc EXCEPT !.series = <<[Series1 EXCEPT !.key = NoPairs], Series2>>]
      [] name = "emptykey" -> [GoodDoc EXCEPT !.series = <<[Series1 EXCEPT !.key = Pairs(<<>>)], Series2>>]
      [] name = "otherkey" -> [GoodDoc EXCEPT !.series =
                                  <<[Series1 EXCEPT !.key = Pairs(<< <<"c9", "k1">>, <<"c1", "k9">> >>)]>>]
      [] name = "noattrs" -> [GoodDoc EXCEPT !.series = <<[Series1 EXCEPT !.attrs = NoPairs]>>]
      [] name = "badyear" -> [GoodDoc EXCEPT !.series = <<[Series1 EXCEPT !.year = Txt(<<"x", "x">>)], Series2>>]
      [] name = "noyear" -> [GoodDoc EXCEPT !.series = <<[Series1 EXCEPT !.year = NoTxt]>>]
      [] name = "naval" -> [GoodDoc EXCEPT !.series = <<[Series1 EXCEPT !.val = Txt(<<"n", "/", "a">>)], Series2>>]
      [] name = "noval" -> [GoodDoc EXCEPT !.series = <<[Series1 EXCEPT !.val = NoTxt]>>]
      [] name = "dotsval" -> [GoodDoc EXCEPT !.series = <<[Series1 EXCEPT !.val = Txt(<<"1", ",", "2", ".", "5">>)]>>]
      [] OTHER -> GoodDoc

DocNames ==
    {"good", "malformed", "nodesc", "nohdr", "nocodes", "noprep", "badprep", "fracprep",
     "badnext", "badupd", "badstart", "badend", "norange", "nodata", "two", "nokey",
     "emptykey", "otherkey", "noattrs", "badyear", "noyear", "naval", "noval", "dotsval"}

\* an observation (line 392)
Obs(classifier, cl, ei, per, tim, val) ==
    [classifier |-> classifier, class |-> cl, unit |-> ei, period |-> per, year |-> tim, value |-> val]

\* the last value given for a concept among the attributes (lines 353-359)
RECURSIVE AttrOf(_, _)
AttrOf(vals, concept) ==
    IF vals = <<>> THEN ""
    ELSE IF vals[Len(vals)][1] = concept THEN vals[Len(vals)][2]
    ELSE AttrOf(SubSeq(vals, 1, Len(vals) - 1), concept)

\* lines 381-390: the name of the code list of the concept, and the
\* description of the first code of that list with the keyed value
Classify(codes, kv) ==
    LET hit == {i \in 1..Len(codes) : codes[i].id = kv[1]}
        c == codes[CHOOSE i \in hit : \A j \in hit : j <= i]
        vhit == {j \in 1..Len(c.values) : c.values[j][1] = kv[2]}
        v == c.values[CHOOSE j \in vhit : \A k \in vhit : j <= k]
    IN IF hit = {} THEN <<"", "">>
       ELSE IF vhit = {} THEN <<c.name, "">>
       ELSE <<c.name, v[2]>>

\* only the first keyed value gives an observation
KeyObs_FirstOnly(kvs, codes, ei, per, tim, val) ==
    IF kvs = <<>> THEN <<>>
    ELSE <<Obs(Classify(codes, kvs[1])[1], Classify(codes, kvs[1])[2], ei, per, tim, val)>>

\* lines 377-394: the observations of a series whose SeriesKey holds the
\* keyed values kvs
KeyObs(kvs, codes, ei, per, tim, val) ==
    [i \in 1..Len(kvs) |-> Obs(Classify(codes, kvs[i])[1], Classify(codes, kvs[i])[2], ei, per, tim, val)]

\* lines 396-399: a series without a SeriesKey gives one observation
NoKeyObs(ei, per, tim, val) == <<Obs("", "", ei, per, tim, val)>>

\* lines 363-367: the year, 0 when missing or not an integer
YearOf(sr) ==
    LET r == PyInt(_get_text(sr.year, <<"0">>))
    IN IF r.ok THEN r.v ELSE 0

\* lines 369-373: the value, 0.0 when missing or not a number
ValueOf(sr) ==
    LET r == PyFloat(_get_text(sr.val, <<"0", ".", "0">>))
    IN IF r.ok THEN r.v ELSE Float(0, 0)

\* lines 346-399: the observations of one series
SeriesObs(sr, codes) ==
    LET ei == IF sr.attrs.has THEN AttrOf(sr.attrs.vals, "EI") ELSE ""
        per == IF sr.attrs.has THEN AttrOf(sr.attrs.vals, "PERIOD") ELSE ""
        tim == YearOf(sr)
        val == ValueOf(sr)
    IN IF sr.key.has THEN KeyObs(sr.key.vals, codes, ei, per, tim, val)
       ELSE NoKeyObs(ei, per, tim, val)

\* _get_data (lines 340-405) with max_row = -1
RECURSIVE _get_data(_, _)
_get_data(series, codes) ==
    IF series = <<>> THEN <<>>
    ELSE _get_data(SubSeq(series, 1, Len(series) - 1), codes) \o SeriesObs(series[Len(series)], codes)

NoTime == [h |-> 0, us |-> 0, form |-> "none"]

NoDS == [id |-> "", name |-> "", fill |-> "none", seq |-> "none", prepared |-> NoTime,
         codes |-> <<>>, next |-> NoTime, data_range |-> <<0, 0>>, updated |-> NoTime,
         data |-> <<>>]

Absent == [k |-> "absent", doc |-> "", of |-> 0, ds |-> NoDS, items |-> <<>>]
XmlFile(doc, d) == [k |-> "xml", doc |-> doc, of |-> d, ds |-> NoDS, items |-> <<>>]
JsonFile(ds) == [k |-> "json", doc |-> "", of |-> 0, ds |-> ds, items |-> <<>>]
JunkFile == [k |-> "junk", doc |-> "", of |-> 0, ds |-> NoDS, items |-> <<>>]
CatXmlFile(doc, items) == [k |-> "xml", doc |-> doc, of |-> 0, ds |-> NoDS, items |-> items]
CatJsonFile(items) == [k |-> "cjson", doc |-> "", of |-> 0, ds |-> NoDS, items |-> items]

FileNames == {"a.xml", "a.json", "b.xml", "b.json", "dataset.xml", "dataset.json",
              "list.xml", "list_json.json", "alt.json"}

Content(path) == IF path \in DOMAIN files THEN files[path] ELSE Absent

\* the outcome of get_one: a dataset record or None
ResNone == [isnone |-> TRUE, ds |-> NoDS]
ResDS(ds) == [isnone |-> FALSE, ds |-> ds]

\* the record get_one starts from (lines 552-555)
Now == Time(2000, 123456)

InitDs(v) ==
    [id |-> Desc(v.d).identifier, name |-> Desc(v.d).title, fill |-> "init", seq |-> "tuple",
     prepared |-> Now, codes |-> <<>>, next |-> Time(0, 0), data_range |-> <<-1, -1>>,
     updated |-> Time(0, 0), data |-> <<>>]

\* the try block of get_one up to _get_data (lines 558-586) on a document of
\* the descriptor numbered of: the record as far as it was filled, and whether
\* the block ended without an exception
ParseDoc(doc, of, ds0) ==
    LET d == Doc(doc)
        fail(ds) == [ok |-> FALSE, ds |-> ds]
        \* lines 562-565: the header; _get_text returns its default on None
        prep == fromisoformat(_get_date(d.prepared, "1900-01-01"))
        ds1 == [ds0 EXCEPT !.prepared = Minus3h(prep.v),
                           !.id = IF d.header THEN Desc(of).identifier ELSE "",
                           !.fill = "header"]
        \* line 568: _get_codes
        ds2 == [ds1 EXCEPT !.codes = d.lists]
        \* lines 571-585: the description
        nxt == strptime_dmy(_get_date(d.next, "01.01.1900"))
        ds3 == [ds2 EXCEPT !.next = nxt.v]
        st == PyInt(_get_text(d.start, <<"0">>))
        en == PyInt(_get_text(d.end, <<"0">>))
        ds4 == [ds3 EXCEPT !.data_range = <<st.v, en.v>>]
        upd == fromisoformat(_get_date(d.updated, "1900-01-01"))
        ds5 == [ds4 EXCEPT !.updated = Minus3h(upd.v)]
        \* line 586: _get_data
        ds6 == [ds5 EXCEPT !.data = IF d.dataset THEN _get_data(d.series, ds5.codes) ELSE <<>>,
                           !.fill = "full"]
    IN IF ~d.wf THEN fail(ds0)
       ELSE IF ~prep.ok THEN fail(ds0)
       ELSE IF ~d.codelists THEN fail(ds1)
       ELSE IF ~d.desc THEN fail(ds2)
       ELSE IF ~nxt.ok THEN fail(ds2)
       ELSE IF ~(st.ok /\ en.ok) THEN fail(ds3)
       ELSE IF ~upd.ok THEN fail(ds4)
       ELSE [ok |-> TRUE, ds |-> ds6]

\* json.dump(ds, default=str): tuples are written as JSON arrays, datetimes
\* as their str()
JsonDump(ds) ==
    [ds EXCEPT !.seq = "array", !.prepared = DateStr(@), !.next = DateStr(@),
               !.updated = DateStr(@)]

\* json_hook (lines 480-484) turns the texts under 'prepared', 'next' and
\* 'updated' back into datetimes; its ValueError makes json.load fail
JsonLoadable(c) ==
    /\ c.k = "json"
    /\ strptime_ymdhms(c.ds.prepared).ok
    /\ strptime_ymdhms(c.ds.next).ok
    /\ strptime_ymdhms(c.ds.updated).ok

\* json.load(infile, object_hook=json_hook): JSON arrays are read as lists
JsonLoad(c) ==
    [c.ds EXCEPT !.seq = "list", !.prepared = strptime_ymdhms(@).v,
                 !.next = strptime_ymdhms(@).v, !.updated = strptime_ymdhms(@).v]

(***************************************************************************)
(* get_one                                                                 *)
(***************************************************************************)
\* a get_one invocation with its arguments bound to the parameters
NewTask(dataset, xmlfilename, overwrite, del_xml, save2json, loadfromjson, on_dataset, pc) ==
    [dataset |-> dataset, xmlfilename |-> xmlfilename, overwrite |-> overwrite,
     del_xml |-> del_xml, save2json |-> save2json, loadfromjson |-> loadfromjson,
     on_dataset |-> on_dataset, pc |-> pc, outputfile |-> "", ds |-> NoDS, doc |-> "",
     loaded |-> FALSE, parsed |-> FALSE, reqs |-> 0, cbs |-> <<>>,
     result |-> ResNone, raised |-> FALSE, failed |-> "", atStop |-> FALSE,
     badcall |-> FALSE, miss |-> FALSE, got |-> ""]

\* return value / raise
Return(a, res) == [a EXCEPT !.pc = "done", !.result = res]
Raise(a) == [a EXCEPT !.pc = "done", !.result = ResNone, !.raised = TRUE]

\* self[key] for an int key (bool is an int): self.datasets[key]
GetItem(v) ==
    LET idx == IF v.b THEN 1 ELSE 0
    IN IF idx < Len(datasets) THEN PyDict(datasets[idx + 1]) ELSE PyNone

\* lines 486-503: resolve the dataset argument, then choose the JSON or XML path
Resolve(a) ==
    LET res ==
          IF a.loadfromjson.k = "none" \/ IsAuto(a.loadfromjson)
          THEN CASE a.dataset.k = "str" ->
                      IF find_datasets(a.dataset.s) = <<>> THEN PyNone
                      ELSE PyDict(find_datasets(a.dataset.s)[1])
                 [] a.dataset.k = "bool" -> GetItem(a.dataset)
                 [] a.dataset.k = "dict" -> a.dataset
                 [] OTHER -> PyNone
          ELSE a.dataset
        unresolved == (a.loadfromjson.k = "none" \/ IsAuto(a.loadfromjson)) /\ res.k = "none"
    IN IF unresolved THEN Return(a, ResNone)
       ELSE [a EXCEPT !.dataset = res,
                      !.pc = IF Truthy(a.loadfromjson) THEN "loadjson" ELSE "prefetch"]

\* the top-level call: nothing is running
IdleRun == [kind |-> "idle", state |-> "idle", jobs |-> <<>>, cb |-> FALSE, completed |-> <<>>,
            collected |-> 0, results |-> <<>>, retnone |-> FALSE, cancelled |-> FALSE,
            stopSeen |-> FALSE, policy |-> <<>>]

Running(a) == a.pc \notin {"pending", "done", "cancelled"}

Quiescent ==
    /\ run.state \in {"idle", "returned"}
    /\ \A t \in 1..Len(tasks) : ~Running(tasks[t])

\* record the step of invocation t; a finished invocation completes its future
Step(t, a2) ==
    /\ tasks' = [tasks EXCEPT ![t] = a2]
    /\ run' = IF a2.pc = "done"
              THEN [run EXCEPT !.completed = Append(@, t),
                               !.state = IF run.kind = "one" THEN "returned" ELSE @]
              ELSE run

\* lines 504-511: the snapshot file name and whether it loads
LoadPath(a) ==
    IF IsAuto(a.loadfromjson) THEN IdOrDefault(a.dataset) \o ".json"
    ELSE IF a.loadfromjson.k = "str" THEN a.loadfromjson.s ELSE ""

\* a get_one that would go on to the download after reading the snapshot
AfterLoad_FallThrough(a, c) == [a EXCEPT !.ds = JsonLoad(c), !.loaded = TRUE, !.pc = "prefetch"]

\* lines 515-522: the snapshot was read: hand it to the callback, return it
AfterLoad(a, c) ==
    LET a1 == [a EXCEPT !.ds = JsonLoad(c), !.loaded = TRUE]
    IN IF Truthy(a.on_dataset) THEN [a1 EXCEPT !.pc = "cb_json"] ELSE Return(a1, ResDS(a1.ds))

\* lines 503-514: load the snapshot; on any exception re-enter get_one with
\* loadfromjson=None (line 514)
LoadJson(t) ==
    LET a == tasks[t]
        c == Content(LoadPath(a))
    IN /\ a.pc = "loadjson"
       /\ IF JsonLoadable(c)
          THEN Step(t, AfterLoad(a, c))
          ELSE Step(t, Resolve([a EXCEPT !.loadfromjson = PyNone, !.miss = TRUE]))
       /\ UNCHANGED <<datasets, files, stopped, calls, runs, cat>>

\* lines 517-522: the callback on the JSON path is not guarded
CbJson(t) ==
    LET a == tasks[t]
    IN /\ a.pc = "cb_json"
       /\ IF a.on_dataset.k # "fn"
          THEN Step(t, Raise(a))
          ELSE \E throws \in BOOLEAN :
                 LET a1 == [a EXCEPT !.cbs = Append(@, ResDS(a.ds))]
                 IN Step(t, IF throws THEN Raise(a1) ELSE Return(a1, ResDS(a.ds)))
       /\ UNCHANGED <<datasets, files, stopped, calls, runs, cat>>

\* lines 524-537: the XML file name; an existing file is removed before the
\* download unless it is to be reused ('link' in dataset is a TypeError for
\* a dataset argument that is no container)
Prefetch(t) ==
    LET a == tasks[t]
        name == IF IsAuto(a.xmlfilename) THEN IdOrDefault(a.dataset) \o ".xml" ELSE a.xmlfilename.s
        download == Content(name).k = "absent" \/ Truthy(a.overwrite)
    IN /\ a.pc = "prefetch"
       /\ IF a.dataset.k \notin {"dict", "str", "list"}
          THEN Step(t, Raise(a)) /\ UNCHANGED files
          ELSE IF a.dataset.k # "dict" \/ ~Desc(a.dataset.d).link
          THEN Step(t, Return(a, ResNone)) /\ UNCHANGED files
          ELSE IF a.xmlfilename.k # "str"
          THEN Step(t, Raise(a)) /\ UNCHANGED files
          ELSE /\ Step(t, [a EXCEPT !.outputfile = name,
                                    !.pc = IF download THEN "fetch" ELSE "parse"])
               /\ files' = IF download /\ name \in DOMAIN files
                           THEN [files EXCEPT ![name] = Absent] ELSE files
       /\ UNCHANGED <<datasets, stopped, calls, runs, cat>>

\* what the server answers to one GET of a dataset document
NetOutcomes == {"good", "nodesc", "malformed", "status", "timeout"}

\* a get_one that would try the GET again
AfterFetchFail_Retry(a) == [a EXCEPT !.failed = "net", !.pc = "fetch"]

\* where get_one goes after a GET that failed (lines 540-542, 548-550)
AfterFetchFail(a) == Return([a EXCEPT !.failed = "net"], ResNone)

\* lines 538-550: one GET; the body is written to the XML file (got keeps
\* the document the server sent to this job)
Fetch(t) ==
    LET a == tasks[t]
        a1 == [a EXCEPT !.reqs = @ + 1]
    IN /\ a.pc = "fetch"
       /\ \E o \in NetOutcomes :
            IF o \in {"status", "timeout"}
            THEN Step(t, AfterFetchFail(a1)) /\ UNCHANGED files
            ELSE /\ Step(t, [a1 EXCEPT !.pc = "parse", !.got = o])
                 /\ files' = [files EXCEPT ![a.outputfile] = XmlFile(o, a.dataset.d)]
       /\ UNCHANGED <<datasets, stopped, calls, runs, cat>>

\* a get_one that goes on to write the snapshot whatever the parser did
AfterParse_AlwaysPersist(ok) == "persist"

\* where get_one goes after the parser: on to lines 588-610, or into the
\* except branch of line 612
AfterParse(ok) == IF ok THEN "persist" ELSE "cb_err"

\* lines 552-586: build the record from the descriptor, then parse the file
Parse(t) ==
    LET a == tasks[t]
        c == Content(a.outputfile)
        ds0 == InitDs(a.dataset)
        p == ParseDoc(c.doc, c.of, ds0)
        cbpc(ok) == AfterParse(ok)
    IN /\ a.pc = "parse"
       /\ IF ~Desc(a.dataset.d).hasId
          THEN Step(t, Raise(a))
          ELSE IF c.k # "xml"
          THEN Step(t, [a EXCEPT !.ds = ds0, !.parsed = TRUE, !.failed = "parse", !.pc = "cb_err"])
          ELSE Step(t, [a EXCEPT !.ds = p.ds, !.parsed = TRUE, !.doc = c.doc,
                                 !.failed = IF p.ok THEN "" ELSE "parse",
                                 !.pc = cbpc(p.ok)])
       /\ UNCHANGED <<datasets, files, stopped, calls, runs, cat>>

\* lines 588-604: write the snapshot, delete the XML file
Persist(t) ==
    LET a == tasks[t]
        jname == IF IsAuto(a.save2json) THEN IdOrDefault(a.dataset) \o ".json" ELSE a.save2json.s
        save == Truthy(a.save2json) /\ a.save2json.k = "str" /\ jname \in DOMAIN files
        f1 == IF save THEN [files EXCEPT ![jname] = JsonFile(JsonDump(a.ds))] ELSE files
        f2 == IF Truthy(a.del_xml) THEN [f1 EXCEPT ![a.outputfile] = Absent] ELSE f1
    IN /\ a.pc = "persist"
       /\ files' = f2
       /\ Step(t, IF Truthy(a.on_dataset) THEN [a EXCEPT !.pc = "cb"] ELSE Return(a, ResDS(a.ds)))
       /\ UNCHANGED <<datasets, stopped, calls, runs, cat>>

\* lines 606-610: the callback on the XML path, inside the try block
Cb(t) ==
    LET a == tasks[t]
    IN /\ a.pc = "cb"
       /\ IF a.on_dataset.k # "fn"
          THEN Step(t, [a EXCEPT !.pc = "cb_err"])
          ELSE \E throws \in BOOLEAN :
                 LET a1 == [a EXCEPT !.cbs = Append(@, ResDS(a.ds))]
                 IN Step(t, IF throws THEN [a1 EXCEPT !.pc = "cb_err"] ELSE Return(a1, ResDS(a.ds)))
       /\ UNCHANGED <<datasets, files, stopped, calls, runs, cat>>

\* lines 612-631: the except branch: the callback gets the record as it is,
\* its exceptions are swallowed, the XML file is deleted, None is returned
CbErr(t) ==
    LET a == tasks[t]
        a1 == IF a.on_dataset.k = "fn" THEN [a EXCEPT !.cbs = Append(@, ResDS(a.ds))] ELSE a
    IN /\ a.pc = "cb_err"
       /\ files' = IF Truthy(a.del_xml) THEN [files EXCEPT ![a.outputfile] = Absent] ELSE files
       /\ Step(t, Return(a1, ResNone))
       /\ UNCHANGED <<datasets, stopped, calls, runs, cat>>

\* the cache policies drawn for a call: <<overwrite, del_xml, save2json, loadfromjson>>
Policies ==
    {<<TRUE, TRUE, PyStr("auto"), PyStr("auto")>>,
     <<TRUE, TRUE, PyNone, PyStr("auto")>>,
     <<TRUE, FALSE, PyStr("auto"), PyNone>>,
     <<FALSE, FALSE, PyNone, PyNone>>}

\* a direct call of get_one with a descriptor, a cache policy and a callback
CallGetOne ==
    /\ Quiescent
    /\ calls < MaxCalls
    /\ \E d \in {1, 3}, p \in Policies, cb \in {PyNone, PyFn} :
         /\ tasks' = <<Resolve(NewTask(PyDict(d), PyStr("auto"), PyBool(p[1]), PyBool(p[2]),
                                       p[3], p[4], cb, "resolve"))>>
         /\ run' = [IdleRun EXCEPT !.kind = "one", !.state = "running",
                                   !.jobs = <<d>>, !.cb = (cb.k = "fn")]
    /\ calls' = calls + 1
    /\ UNCHANGED <<datasets, files, stopped, runs, cat>>

(***************************************************************************)
(* get_many                                                                *)
(***************************************************************************)
\* the descriptor lists handed to get_many: distinct descriptors in
\* catalog order, the empty list included
JobLists ==
    {<<>>} \cup
    UNION {{js \in [1..n -> 1..3] : \A i \in 1..(n - 1) : js[i] < js[i + 1]} : n \in 1..MaxJobs}

\* number of parameters of get_one after self
NParams == 8

\* lines 700-717: one argument tuple per descriptor; the callback and its
\* keyword arguments are not put into the tuple (line 717)
JobArgs(jobs, xmlfilenames, overwrite, del_xml, save2json, loadfromjson) ==
    LET pick(v, i) == IF is_iterable(v) THEN PyStr(v.l[i]) ELSE v
    IN [i \in 1..Len(jobs) |->
          <<PyDict(jobs[i]), pick(xmlfilenames, i), overwrite, del_xml, pick(save2json, i),
            pick(loadfromjson, i), PyNone, PyNone>>]

\* Client.map(func, *iterables): like the builtin map, the k-th task is
\* func(iterables[1][k], ..., iterables[n][k]); line 726 passes every
\* argument tuple as one iterable
ClusterMap(args) ==
    [k \in 1..NParams |-> [i \in 1..Len(args) |-> args[i][k]]]

\* binding of the positional arguments of one call to get_one's parameters
\* (line 477-478); more than NParams arguments is a TypeError of the call
Bind(cargs) ==
    LET n == Len(cargs)
        arg(i, dflt) == IF i <= n THEN cargs[i] ELSE dflt
        a == NewTask(arg(1, PyNone), arg(2, PyStr("auto")), arg(3, PyBool(TRUE)),
                     arg(4, PyBool(TRUE)), arg(5, PyStr("auto")), arg(6, PyStr("auto")),
                     arg(7, PyNone), "pending")
    IN [a EXCEPT !.badcall = (n > NParams)]

\* a set_stopped that leaves the flag as it is
set_stopped_Ignored(st) == UNCHANGED stopped

\* lines 748-749 (called at line 724)
set_stopped(st) == stopped' = st

\* lines 661-726: the call of get_many with a list of descriptors
CallGetMany ==
    /\ Quiescent
    /\ calls < MaxCalls
    /\ runs < MaxRuns /\ calls = runs
    /\ \E jobs \in JobLists, ow \in BOOLEAN, dx \in {TRUE},
          s2j \in {PyStr("auto")}, lfj \in {PyStr("auto")}, cb \in {PyFn} :
         IF jobs = <<>>
         THEN /\ tasks' = <<>>
              /\ run' = [IdleRun EXCEPT !.kind = "many", !.state = "returned",
                                        !.retnone = TRUE, !.cb = (cb.k = "fn")]
              /\ UNCHANGED stopped
         ELSE LET m == ClusterMap(JobArgs(jobs, PyStr("auto"), PyBool(ow), PyBool(dx), s2j, lfj))
              IN /\ tasks' = [k \in 1..Len(m) |-> Bind(m[k])]
                 /\ run' = [IdleRun EXCEPT !.kind = "many", !.state = "running",
                                           !.jobs = jobs, !.cb = (cb.k = "fn"),
                                           !.policy = <<PyStr("auto"), PyBool(ow), PyBool(dx), s2j, lfj>>]
                 /\ set_stopped(FALSE)
    /\ calls' = calls + 1
    /\ runs' = runs + 1
    /\ UNCHANGED <<datasets, files, cat>>

\* a free worker takes a pending task and enters get_one
StartTask(t) ==
    LET a == tasks[t]
    IN /\ a.pc = "pending"
       /\ \A u \in 1..(t - 1) : tasks[u].pc # "pending"
       /\ Cardinality({u \in 1..Len(tasks) : Running(tasks[u])}) < NWorkers
       /\ Step(t, IF a.badcall THEN Raise(a) ELSE Resolve(a))
       /\ UNCHANGED <<datasets, files, stopped, calls, runs, cat>>

\* Client.cancel(futures, force=False): tasks that have not started never run;
\* a task that is executing is not interrupted
Cancel(ts) == [t \in 1..Len(ts) |-> IF ts[t].pc = "pending" THEN [ts[t] EXCEPT !.pc = "cancelled"] ELSE ts[t]]

\* lines 729-743: one iteration of the as_completed loop
Collect ==
    /\ run.kind = "many" /\ run.state = "running"
    /\ run.collected < Len(run.completed)
    /\ LET t == run.completed[run.collected + 1]
           r1 == [run EXCEPT !.collected = @ + 1]
           r2 == [r1 EXCEPT !.results = Append(@, tasks[t].result)]
       IN IF tasks[t].raised
          THEN /\ tasks' = Cancel(tasks)
               /\ run' = [r1 EXCEPT !.state = "returned", !.retnone = TRUE, !.results = <<>>]
          ELSE IF stopped
          THEN /\ tasks' = Cancel(tasks)
               /\ run' = [r2 EXCEPT !.state = "returned", !.cancelled = TRUE]
          ELSE /\ tasks' = tasks
               /\ run' = IF r2.collected = Len(tasks) THEN [r2 EXCEPT !.state = "returned"] ELSE r2
    /\ UNCHANGED <<datasets, files, stopped, calls, runs, cat>>

\* set_stopped(True) from the controlling context (lines 748-749)
SetStopped ==
    /\ ~stopped
    /\ run.kind = "many" /\ run.state = "running"
    /\ stopped' = TRUE
    /\ tasks' = [t \in 1..Len(tasks) |-> [tasks[t] EXCEPT !.atStop = Running(tasks[t])]]
    /\ run' = [run EXCEPT !.stopSeen = TRUE]
    /\ UNCHANGED <<datasets, files, calls, runs, cat>>

(***************************************************************************)
(* The orchestrator specification                                          *)
(***************************************************************************)
CatIdle == [state |-> "idle", stack |-> <<>>, reqs |-> 0, writes |-> 0, miss |-> FALSE,
            net |-> <<>>, top |-> <<>>, n |-> 0, netfail |-> FALSE,
            before |-> [f \in FileNames |-> Absent]]

Init ==
    /\ datasets = <<1>>
    /\ \E c \in {Absent, JunkFile, JsonFile(JsonDump(ParseDoc("good", 1, InitDs(PyDict(1))).ds))} : files = [f \in FileNames |-> IF f = "a.json" THEN c ELSE Absent]
    /\ stopped = FALSE
    /\ tasks = <<>>
    /\ run = IdleRun
    /\ calls = 0
    /\ runs = 0
    /\ cat = CatIdle

TaskStep(t) ==
    \/ StartTask(t)
    \/ LoadJson(t)
    \/ CbJson(t)
    \/ Prefetch(t)
    \/ Fetch(t)
    \/ Parse(t)
    \/ Persist(t)
    \/ Cb(t)
    \/ CbErr(t)

Next ==
    \/ CallGetOne
    \/ CallGetMany
    \/ \E t \in 1..Len(tasks) : TaskStep(t)
    \/ Collect
    \/ SetStopped

Spec == Init /\ [][Next]_vars

\* single calls of get_one only
OneStep(t) ==
    \/ LoadJson(t)
    \/ CbJson(t)
    \/ Prefetch(t)
    \/ Fetch(t)
    \/ Parse(t)
    \/ Persist(t)
    \/ Cb(t)
    \/ CbErr(t)

NextOne ==
    \/ CallGetOne
    \/ \E t \in 1..Len(tasks) : OneStep(t)

SpecOne == Init /\ [][NextOne]_vars

(***************************************************************************)
(* get_many with per-job file names                                        *)
(***************************************************************************)
\* lines 702-715 and 719-721: indexing a list of names that is shorter than
\* the list of descriptors raises IndexError, and get_many returns None
ArgsRaise(jobs, xmlfilenames, save2json, loadfromjson) ==
    \E v \in {xmlfilenames, save2json, loadfromjson} : is_iterable(v) /\ Len(v.l) < Len(jobs)

\* the lists of names handed to get_many, of every length up to MaxJobs + 1
NameLists(ext) ==
    LET names == <<"a" \o ext, "b" \o ext, "dataset" \o ext>>
    IN {PyList(SubSeq(names, 1, n)) : n \in 0..(MaxJobs + 1)}

\* a call of get_many with a list of descriptors and one list of names, for
\* the XML files, the snapshots to write or the snapshots to read
CallGetManyLists ==
    /\ Quiescent
    /\ calls < MaxCalls
    /\ runs < MaxRuns /\ calls = runs
    /\ \E jobs \in JobLists \ {<<>>}, which \in 1..3 :
       \E names \in NameLists(IF which = 1 THEN ".xml" ELSE ".json") :
         LET xf == IF which = 1 THEN names ELSE PyStr("auto")
             s2j == IF which = 2 THEN names ELSE PyStr("auto")
             lfj == IF which = 3 THEN names ELSE PyStr("auto")
             r == [IdleRun EXCEPT !.kind = "many", !.jobs = jobs, !.cb = FALSE,
                                  !.policy = <<xf, PyBool(TRUE), PyBool(TRUE), s2j, lfj>>]
         IN IF ArgsRaise(jobs, xf, s2j, lfj)
            THEN /\ tasks' = <<>>
                 /\ run' = [r EXCEPT !.state = "returned", !.retnone = TRUE]
                 /\ UNCHANGED stopped
            ELSE LET m == ClusterMap(JobArgs(jobs, xf, PyBool(TRUE), PyBool(TRUE), s2j, lfj))
                 IN /\ tasks' = [k \in 1..Len(m) |-> Bind(m[k])]
                    /\ run' = [r EXCEPT !.state = "running"]
                    /\ stopped' = FALSE
    /\ calls' = calls + 1
    /\ runs' = runs + 1
    /\ UNCHANGED <<datasets, files, cat>>

NextLists ==
    \/ CallGetManyLists
    \/ \E t \in 1..Len(tasks) : TaskStep(t)
    \/ Collect

SpecLists == Init /\ [][NextLists]_vars

(***************************************************************************)
(* get_one on the documents of the data directory                          *)
(***************************************************************************)
\* a call of get_one that reuses the XML file of the descriptor when it is
\* there (overwrite = False)
CallGetOneLocal ==
    /\ Quiescent
    /\ calls < MaxCalls
    /\ \E dx \in BOOLEAN, s2j \in {PyStr("auto"), PyNone}, lfj \in {PyStr("auto"), PyNone},
          cb \in {PyNone, PyFn} :
         /\ tasks' = <<Resolve(NewTask(PyDict(1), PyStr("auto"), PyBool(FALSE), PyBool(dx),
                                       s2j, lfj, cb, "resolve"))>>
         /\ run' = [IdleRun EXCEPT !.kind = "one", !.state = "running",
                                   !.jobs = <<1>>, !.cb = (cb.k = "fn")]
    /\ calls' = calls + 1
    /\ UNCHANGED <<datasets, files, stopped, runs, cat>>

\* the data directory holds a document of the first descriptor
InitParse ==
    /\ datasets = <<1>>
    /\ \E doc \in DocNames :
         files = [f \in FileNames |-> IF f = "a.xml" THEN XmlFile(doc, 1) ELSE Absent]
    /\ stopped = FALSE
    /\ tasks = <<>>
    /\ run = IdleRun
    /\ calls = 0
    /\ runs = 0
    /\ cat = CatIdle

NextParse ==
    \/ CallGetOneLocal
    \/ \E t \in 1..Len(tasks) : OneStep(t)

SpecParse == InitParse /\ [][NextParse]_vars

(***************************************************************************)
(* update_dataset_list                                                     *)
(***************************************************************************)
MaxRefresh == 2     \* update_dataset_list calls per behaviour

\* one activation of update_dataset_list (line 146-147)
Frame(xmlfilename, xml_only, overwrite, del_xml, save2json, loadfromjson) ==
    [xmlfilename |-> xmlfilename, xml_only |-> xml_only, overwrite |-> overwrite,
     del_xml |-> del_xml, save2json |-> save2json, loadfromjson |-> loadfromjson,
     pc |-> IF Truthy(loadfromjson) THEN "load" ELSE "path"]

\* line 159: the call made after a failed snapshot load passes five positional
\* arguments, which bind to xmlfilename, xml_only, overwrite, del_xml and
\* save2json; loadfromjson takes its default
Fallback(f) ==
    Frame(f.xmlfilename, f.xml_only, f.overwrite, f.save2json, PyNone, PyStr("list_json.json"))

\* the entries parsed from the list document (lines 185-188)
CatItems(items, xml_only) ==
    LET keep(i) == ~(Truthy(xml_only) /\ Desc(i).format # "xml")
    IN SelectSeq(items, keep)

\* the catalog documents the server may answer with
CatDocs == {<<1, 4>>, <<2>>}

CatReturn(c) ==
    LET st == SubSeq(c.stack, 1, Len(c.stack) - 1)
    IN [c EXCEPT !.stack = st, !.state = IF st = <<>> THEN "returned" ELSE @]

CatFatal(c) == [c EXCEPT !.stack = <<>>, !.state = "fatal"]

CatTop == cat.stack[Len(cat.stack)]

SetTop(c, f) == [c EXCEPT !.stack[Len(c.stack)] = f]

\* line 156 left out: the call goes on to the XML file after the load
CatLoaded_FallThrough(c) == SetTop(c, [c.stack[Len(c.stack)] EXCEPT !.pc = "path"])

\* line 156: a loaded snapshot ends the call
CatLoaded(c) == CatReturn(c)

\* the failure is reported but the call goes on to the parser
CatFetchFail_Continue(c) ==
    SetTop([c EXCEPT !.netfail = TRUE], [c.stack[Len(c.stack)] EXCEPT !.pc = "parse"])

\* lines 170-172 and 178-180: a falsy response or an exception of the GET is
\* reported through _report and the call returns
CatFetchFail(c) == CatReturn([c EXCEPT !.netfail = TRUE])

\* a call of update_dataset_list; line 148 empties the catalog
CallUpdate ==
    /\ cat.state \in {"idle", "returned", "fatal"}
    /\ cat.n < MaxRefresh
    /\ \E xo \in BOOLEAN, ow \in BOOLEAN, dx \in BOOLEAN,
          s2j \in {PyStr("list_json.json"), PyNone},
          lfj \in {PyStr("list_json.json"), PyStr("alt.json"), PyStr("")} :
         LET f == Frame(PyStr("list.xml"), PyBool(xo), PyBool(ow), PyBool(dx), s2j, lfj)
         IN cat' = [CatIdle EXCEPT !.state = "running", !.stack = <<f>>, !.top = <<f>>,
                                   !.n = cat.n + 1, !.before = files]
    /\ datasets' = <<>>
    /\ UNCHANGED <<files, stopped, tasks, run, calls, runs>>

\* lines 150-159: load the snapshot, or call update_dataset_list again
CatLoad ==
    /\ cat.state = "running" /\ CatTop.pc = "load"
    /\ LET f == CatTop
           c == Content(f.loadfromjson.s)
           c1 == [cat EXCEPT !.miss = @ \/ Len(cat.stack) = 1]
       IN IF c.k = "cjson"
          THEN /\ datasets' = c.items
               /\ cat' = CatLoaded(cat)
          ELSE /\ datasets' = <<>>
               /\ cat' = IF Len(cat.stack) >= RecursionLimit
                         THEN CatFatal(c1)
                         ELSE [SetTop(c1, [f EXCEPT !.pc = "path"]) EXCEPT
                                  !.stack = Append(@, Fallback(f))]
    /\ UNCHANGED <<files, stopped, tasks, run, calls, runs>>

\* an existing XML file is reused whatever overwrite says
Download_IgnoreOverwrite(f) == Content(f.xmlfilename.s).k = "absent"

\* line 162: the list is downloaded unless an XML file exists and may be reused
Download(f) == Content(f.xmlfilename.s).k = "absent" \/ Truthy(f.overwrite)

\* lines 161-167: the XML file is removed before the download unless reused
CatPath ==
    /\ cat.state = "running" /\ CatTop.pc = "path"
    /\ LET f == CatTop
           name == f.xmlfilename.s
           download == Download(f)
       IN /\ files' = IF download THEN [files EXCEPT ![name] = Absent] ELSE files
          /\ cat' = SetTop(cat, [f EXCEPT !.pc = IF download THEN "fetch" ELSE "parse"])
    /\ UNCHANGED <<datasets, stopped, tasks, run, calls, runs>>

\* lines 168-180: one GET of the list; on failure the call returns
CatFetch ==
    /\ cat.state = "running" /\ CatTop.pc = "fetch"
    /\ LET f == CatTop
           c1 == [cat EXCEPT !.reqs = @ + 1]
       IN \/ /\ cat' = CatFetchFail(c1)
             /\ UNCHANGED files
          \/ \E doc \in {"good", "malformed"}, items \in CatDocs :
               /\ files' = [files EXCEPT ![f.xmlfilename.s] = CatXmlFile(doc, items)]
               /\ cat' = SetTop([c1 EXCEPT !.net = IF doc = "good" THEN items ELSE <<>>],
                                [f EXCEPT !.pc = "parse"])
    /\ UNCHANGED <<datasets, stopped, tasks, run, calls, runs>>

\* lines 182-205: parse the list (an exception of the parser is not caught),
\* append its entries to the catalog, delete the XML file, write the snapshot
CatParse ==
    /\ cat.state = "running" /\ CatTop.pc = "parse"
    /\ LET f == CatTop
           c == Content(f.xmlfilename.s)
           ds1 == datasets \o CatItems(c.items, f.xml_only)
           f1 == IF Truthy(f.del_xml) THEN [files EXCEPT ![f.xmlfilename.s] = Absent] ELSE files
           save == Truthy(f.save2json) /\ f.save2json.k = "str"
           f2 == IF save THEN [f1 EXCEPT ![f.save2json.s] = CatJsonFile(ds1)] ELSE f1
       IN IF c.k # "xml" \/ c.doc # "good"
          THEN /\ cat' = CatFatal(cat)
               /\ UNCHANGED <<datasets, files>>
          ELSE /\ datasets' = ds1
               /\ files' = f2
               /\ cat' = CatReturn([cat EXCEPT !.writes = @ + (IF save THEN 1 ELSE 0)])
    /\ UNCHANGED <<stopped, tasks, run, calls, runs>>

InitCat ==
    /\ datasets = <<>>
    /\ \E c \in {Absent, JunkFile, CatJsonFile(<<1>>)}, x \in {Absent, CatXmlFile("good", <<1, 4>>)} :
         files = [f \in FileNames |-> IF f = "list_json.json" THEN c
                                      ELSE IF f = "list.xml" THEN x ELSE Absent]
    /\ stopped = FALSE
    /\ tasks = <<>>
    /\ run = IdleRun
    /\ calls = 0
    /\ runs = 0
    /\ cat = CatIdle

NextCat ==
    \/ CallUpdate
    \/ CatLoad
    \/ CatPath
    \/ CatFetch
    \/ CatParse

SpecCat == InitCat /\ [][NextCat]_vars

(***************************************************************************)
(* The catalog filters against the database                                *)
(***************************************************************************)
MaxCand == 2        \* longest candidate list handed to a filter

\* the names `select distinct name from datasets` may return; "te" is the
\* name of a stored dataset that no descriptor of the catalog carries
DbNames == {"ta", "tb", "te"}

\* db.fetch(...): None when the query fails, else the rows
FetchNone == [ok |-> FALSE, names |-> {}]
FetchRows(ns) == [ok |-> TRUE, names |-> ns]
FetchResults == {FetchNone} \cup {FetchRows(ns) : ns \in SUBSET DbNames}

\* the candidate lists: None (the catalog is taken) or a list of descriptors
RECURSIVE DescLists(_)
DescLists(n) ==
    IF n = 0 THEN {<<>>}
    ELSE LET shorter == DescLists(n - 1)
         IN shorter \cup {Append(l, i) : l \in shorter, i \in 1..4}

Candidates == {PyNone} \cup {PyList(l) : l \in DescLists(MaxCand)}

\* lines 752-753 / 759-760: set(ds['title'] for ds in datasets)
CandidateTitles(arg) ==
    LET ds == IF arg.k = "none" THEN datasets ELSE arg.l
    IN {Desc(ds[i]).title : i \in 1..Len(ds)}

\* lines 755 / 762: set(t[0] for t in res) if res else set()
existing_ds(res) == IF res.ok /\ res.names # {} THEN res.names ELSE {}

\* line 756 (the list is built from a set: its order carries no information)
filter_datasets_only_new(res, arg) == CandidateTitles(arg) \ existing_ds(res)

filter_datasets_only_existing_All(res, arg) == CandidateTitles(arg)

\* line 763
filter_datasets_only_existing(res, arg) == CandidateTitles(arg) \cap existing_ds(res)

\* the finished call: what it was given, what it returned, and the catalog
\* as it stood when the call was made
FilterRun(kind, res, arg, out) ==
    [kind |-> kind, state |-> "returned", res |-> res, arg |-> arg, out |-> out,
     catalog |-> datasets]

CallOnlyNew ==
    /\ run.kind = "idle"
    /\ \E res \in FetchResults, arg \in Candidates :
         run' = FilterRun("only_new", res, arg, filter_datasets_only_new(res, arg))
    /\ UNCHANGED <<datasets, files, stopped, tasks, calls, runs, cat>>

CallOnlyExisting ==
    /\ run.kind = "idle"
    /\ \E res \in FetchResults, arg \in Candidates :
         run' = FilterRun("only_existing", res, arg, filter_datasets_only_existing(res, arg))
    /\ UNCHANGED <<datasets, files, stopped, tasks, calls, runs, cat>>

InitFilter ==
    /\ datasets \in {<<>>, <<1>>, <<1, 2, 3>>}
    /\ files = [f \in FileNames |-> Absent]
    /\ stopped = FALSE
    /\ tasks = <<>>
    /\ run = IdleRun
    /\ calls = 0
    /\ runs = 0
    /\ cat = CatIdle

NextFilter ==
    \/ CallOnlyNew
    \/ CallOnlyExisting

SpecFilter == InitFilter /\ [][NextFilter]_vars

(***************************************************************************)
(* The classifier tree (psdb.py, Russtatdb.get_classificator and the two   *)
(* rendering passes collect_classificator and output_classificator)        *)
(***************************************************************************)
MaxRows == 5        \* most rows (classifier, id) the query returns

\* the classifier strings stored in the database, in the order of
\* `order by classifier`; none is empty (condition "classifier <> ''")
Paths == <<
    <<"/", "A">>,
    <<"A">>,
    <<"A", "/", "/", "B">>,
    <<"A", "/", "B", " ">>,
    <<"A", "/", "B", "/", "C">>,
    <<"A", "/", "B", "/", "D">>,
    <<"A", "/", "E">>,
    <<"F">>,
    <<"F", "/", "B">> >>

\* the results of the query of line 302: up to MaxRows rows ordered by
\* classifier; the id of a row is its position (ids are distinct)
RECURSIVE RowChoices(_, _)
RowChoices(n, from) ==
    IF n = 0 THEN {<<>>}
    ELSE {<<>>} \cup UNION {{<<p>> \o r : r \in RowChoices(n - 1, p)} : p \in from..Len(Paths)}

RowSets == {[k \in 1..Len(c) |-> [classifier |-> Paths[c[k]], id |-> k]] : c \in RowChoices(MaxRows, 1)}

\* an optional integer argument (None or a number)
NoLimit == [has |-> FALSE, n |-> 0]
Limit(n) == [has |-> TRUE, n |-> n]

\* ord(c) on the alphabet of the classifier strings
Ord(c) ==
    CASE c = " " -> 32 [] c = "/" -> 47 [] c = "A" -> 65 [] c = "B" -> 66
      [] c = "C" -> 67 [] c = "D" -> 68 [] c = "E" -> 69 [] OTHER -> 70

\* a < b on strings
RECURSIVE StrLess(_, _)
StrLess(a, b) ==
    IF b = <<>> THEN FALSE
    ELSE IF a = <<>> THEN TRUE
    ELSE IF a[1] # b[1] THEN Ord(a[1]) < Ord(b[1])
    ELSE StrLess(Tail(a), Tail(b))

\* a < b on tuples of strings
RECURSIVE TupleLess(_, _)
TupleLess(a, b) ==
    IF b = <<>> THEN FALSE
    ELSE IF a = <<>> THEN TRUE
    ELSE IF a[1] # b[1] THEN StrLess(a[1], b[1])
    ELSE TupleLess(Tail(a), Tail(b))

\* sorted(st) of line 308
RECURSIVE sorted(_)
sorted(st) ==
    IF st = {} THEN <<>>
    ELSE LET least == CHOOSE t \in st : \A u \in st \ {t} : TupleLess(t, u)
         IN <<least>> \o sorted(st \ {least})

\* str.split('/')
RECURSIVE split(_)
split(cs) ==
    IF \A i \in 1..Len(cs) : cs[i] # "/" THEN <<cs>>
    ELSE LET i == CHOOSE i \in 1..Len(cs) : cs[i] = "/" /\ \A k \in 1..(i - 1) : cs[k] # "/"
         IN <<SubSeq(cs, 1, i - 1)>> \o split(SubSeq(cs, i + 1, Len(cs)))

\* s[start:stop] with start >= 0 and stop None or >= 0
Slice(s, start, stop) ==
    LET hi == IF stop.has /\ stop.n < Len(s) THEN stop.n ELSE Len(s)
    IN IF start + 1 > hi THEN <<>> ELSE SubSeq(s, start + 1, hi)

\* line 303: the segment tuple of one classifier string
SegmentsOf(cs, ignore_root, max_levels) ==
    LET parts == split(cs)
        kept == Slice(parts, IF ignore_root THEN 1 ELSE 0, max_levels)
    IN [i \in 1..Len(kept) |-> Strip(kept[i])]

\* line 303: spl
Spl(dsets, ignore_root, max_levels) ==
    [k \in 1..Len(dsets) |->
        [t |-> SegmentsOf(dsets[k].classifier, ignore_root, max_levels), id |-> dsets[k].id]]

\* a closure that keeps only the tuples themselves
PrefixSet_FullOnly(spl) == {spl[k].t : k \in 1..Len(spl)} \ {<<>>}

\* lines 304-307: st
PrefixSet(spl) ==
    UNION {{SubSeq(spl[k].t, 1, i) : i \in 1..Len(spl[k].t)} : k \in 1..Len(spl)}

\* the ids of the rows whose tuple is t_new itself
IdsUnder_Exact(spl, t_new) ==
    LET RECURSIVE from(_)
        from(k) == IF k > Len(spl) THEN <<>>
                   ELSE (IF spl[k].t = t_new THEN <<spl[k].id>> ELSE <<>>) \o from(k + 1)
    IN from(1)

\* lines 312-316: the ids of the rows whose tuple starts with t_new, in the
\* order of the rows
IdsUnder(spl, t_new) ==
    LET l == Len(t_new)
        hit(k) == l <= Len(spl[k].t) /\ SubSeq(spl[k].t, 1, l) = t_new
        RECURSIVE from(_)
        from(k) == IF k > Len(spl) THEN <<>>
                   ELSE (IF hit(k) THEN <<spl[k].id>> ELSE <<>>) \o from(k + 1)
    IN from(1)

\* lines 301-318
get_classificator(dsets, ignore_root, max_levels) ==
    LET spl == Spl(dsets, ignore_root, max_levels)
        st == sorted(PrefixSet(spl))
    IN [k \in 1..Len(st) |-> [t |-> st[k], ids |-> IdsUnder(spl, st[k])]]

\* l.get(i, '') for the dict l of lines 322 / 348, kept as a function from
\* the levels written so far
LastAt(l, i) == IF i \in DOMAIN l THEN l[i] ELSE <<>>

\* a category entry of the result of collect_classificator (line 331); path
\* is not in the code: it records the prefix the entry was emitted for
CatNode(el, i) ==
    [level |-> i, name |-> el.t[i + 1], count |-> Len(el.ids), id |-> -1,
     path |-> SubSeq(el.t, 1, i + 1)]

\* a dataset entry (line 341); path records the prefix it was emitted under
LeafNode(el, j, id) == [level |-> j, name |-> <<>>, count |-> 1, id |-> id, path |-> el.t]

\* lines 328-333: the loop over the levels of one prefix tuple, from level i
RECURSIVE CollectLevels(_, _, _)
CollectLevels(el, i, acc) ==
    IF i >= Len(el.t) THEN acc
    ELSE IF LastAt(acc.l, i) = el.t[i + 1] THEN CollectLevels(el, i + 1, acc)
    ELSE CollectLevels(el, i + 1,
            [l |-> [x \in DOMAIN acc.l \cup {i} |-> IF x = i THEN el.t[i + 1] ELSE acc.l[x]],
             results |-> Append(acc.results, CatNode(el, i)),
             j |-> i + 1])

\* lines 335-341: one entry per id of the prefix tuple, at level j; the names
\* come from get_datasets_by_ids, taken to return one name per id in the
\* order of the ids
CollectLeaves(el, acc) ==
    [acc EXCEPT !.results = @ \o [n \in 1..Len(el.ids) |-> LeafNode(el, acc.j, el.ids[n])]]

\* lines 324-341: the loop over the prefix tuples, from the k-th
RECURSIVE CollectFrom(_, _, _)
CollectFrom(lst, k, acc) ==
    IF k > Len(lst) THEN acc.results
    ELSE CollectFrom(lst, k + 1,
            CollectLeaves(lst[k], CollectLevels(lst[k], 0, [acc EXCEPT !.j = 0])))

\* lines 320-343
collect_classificator(dsets, ignore_root, max_levels, max_categories) ==
    LET lst == get_classificator(dsets, ignore_root, max_levels)
    IN CollectFrom(Slice(lst, 0, max_categories), 1, [l |-> <<>>, results |-> <<>>, j |-> 0])

\* a printed line of output_classificator: a category name (line 352), a
\* dataset (lines 364, 366) or the mark of a cut list (line 368), with the
\* number of indents before it; path is not in the code: it records the
\* prefix the line was printed for
Line(kind, level, el, id) ==
    [kind |-> kind, level |-> level, id |-> id,
     name |-> IF kind = "cat" THEN el.t[level + 1] ELSE <<>>,
     path |-> IF kind = "cat" THEN SubSeq(el.t, 1, level + 1) ELSE el.t]

\* lines 350-353
RECURSIVE OutputLevels(_, _, _)
OutputLevels(el, i, acc) ==
    IF i >= Len(el.t) THEN acc
    ELSE IF LastAt(acc.l, i) = el.t[i + 1] THEN OutputLevels(el, i + 1, acc)
    ELSE OutputLevels(el, i + 1,
            [l |-> [x \in DOMAIN acc.l \cup {i} |-> IF x = i THEN el.t[i + 1] ELSE acc.l[x]],
             lines |-> Append(acc.lines, Line("cat", i, el, -1))])

\* lines 355-368; i is the last level of the loop above (a prefix tuple is
\* never empty)
OutputLeaves(el, o, acc) ==
    LET i == Len(el.t) - 1
        le == Len(el.ids)
        trunc == o.max_ds.has /\ le > o.max_ds.n
        dsets == IF trunc THEN SubSeq(el.ids, 1, o.max_ds.n) ELSE el.ids
        level == IF o.print_names THEN i + 1 ELSE i
        shown == IF o.print_ids \/ o.print_names
                 THEN [n \in 1..Len(dsets) |-> Line("leaf", level, el, dsets[n])]
                 ELSE <<>>
        more == IF trunc THEN <<Line("more", i + 1, el, -1)>> ELSE <<>>
    IN IF le = 0 THEN acc ELSE [acc EXCEPT !.lines = @ \o shown \o more]

\* lines 349-368
RECURSIVE OutputFrom(_, _, _, _)
OutputFrom(lst, k, o, acc) ==
    IF k > Len(lst) THEN acc.lines
    ELSE OutputFrom(lst, k + 1, o, OutputLeaves(lst[k], o, OutputLevels(lst[k], 0, acc)))

\* lines 345-368
output_classificator(dsets, ignore_root, max_levels, o) ==
    LET lst == get_classificator(dsets, ignore_root, max_levels)
    IN OutputFrom(Slice(lst, 0, o.max_categories), 1, o, [l |-> <<>>, lines |-> <<>>])

\* the settings the calls are made with
LevelLimits == {NoLimit, Limit(1), Limit(2)}

\* max_categories of collect_classificator: the default, the value app.py
\* passes, and a small one
CategoryLimits == {NoLimit, Limit(50), Limit(2)}

Options(max_categories, print_names, print_ids, max_ds) ==
    [max_categories |-> max_categories, print_names |-> print_names,
     print_ids |-> print_ids, max_ds |-> max_ds]

\* the defaults of line 345-346, the settings of russtat.py:147 and of
\* repl.py:277, and one with small limits and ids only
OutputOptions ==
    {Options(NoLimit, TRUE, TRUE, Limit(10)),
     Options(Limit(50), TRUE, FALSE, Limit(5)),
     Options(NoLimit, TRUE, TRUE, NoLimit),
     Options(Limit(2), FALSE, TRUE, Limit(1))}

\* the finished call: what it was given and what it returned
TreeRun(kind, dsets, ignore_root, max_levels, o, out) ==
    [kind |-> kind, state |-> "returned", dsets |-> dsets, ignore_root |-> ignore_root,
     max_levels |-> max_levels, o |-> o, out |-> out]

CallGetClassificator ==
    /\ run.kind = "idle"
    /\ \E dsets \in RowSets, ignore_root \in BOOLEAN, max_levels \in LevelLimits :
         run' = TreeRun("get_classificator", dsets, ignore_root, max_levels,
                        Options(NoLimit, TRUE, TRUE, NoLimit),
                        get_classificator(dsets, ignore_root, max_levels))
    /\ UNCHANGED <<datasets, files, stopped, tasks, calls, runs, cat>>

CallCollectClassificator ==
    /\ run.kind = "idle"
    /\ \E dsets \in RowSets, ignore_root \in BOOLEAN, max_levels \in LevelLimits,
          max_categories \in CategoryLimits :
         run' = TreeRun("collect_classificator", dsets, ignore_root, max_levels,
                        Options(max_categories, TRUE, TRUE, NoLimit),
                        collect_classificator(dsets, ignore_root, max_levels, max_categories))
    /\ UNCHANGED <<datasets, files, stopped, tasks, calls, runs, cat>>

CallOutputClassificator ==
    /\ run.kind = "idle"
    /\ \E dsets \in RowSets, ignore_root \in BOOLEAN, max_levels \in LevelLimits,
          o \in OutputOptions :
         run' = TreeRun("output_classificator", dsets, ignore_root, max_levels, o,
                        output_classificator(dsets, ignore_root, max_levels, o))
    /\ UNCHANGED <<datasets, files, stopped, tasks, calls, runs, cat>>

InitTree ==
    /\ datasets = <<>>
    /\ files = [f \in FileNames |-> Absent]
    /\ stopped = FALSE
    /\ tasks = <<>>
    /\ run = IdleRun
    /\ calls = 0
    /\ runs = 0
    /\ cat = CatIdle

NextTree ==
    \/ CallGetClassificator
    \/ CallCollectClassificator
    \/ CallOutputClassificator

SpecTree == InitTree /\ [][NextTree]_vars

(***************************************************************************)
(* get_many on an engine whose stop flag is still set                      *)
(***************************************************************************)
\* set_stopped(True) was called before the run: by a controller that gave
\* up early, or during an earlier run (nothing but get_many resets the flag)
InitStop ==
    /\ datasets = <<1>>
    /\ \E c \in {Absent, JunkFile, JsonFile(JsonDump(ParseDoc("good", 1, InitDs(PyDict(1))).ds))} : files = [f \in FileNames |-> IF f = "a.json" THEN c ELSE Absent]
    /\ stopped = TRUE
    /\ tasks = <<>>
    /\ run = IdleRun
    /\ calls = 0
    /\ runs = 0
    /\ cat = CatIdle

\* the run as far as the flag is concerned: the call, the workers taking
\* tasks (a task that returns at once completes its future), the
\* as_completed loop and set_stopped(True)
NextStop ==
    \/ CallGetMany
    \/ \E t \in 1..Len(tasks) : StartTask(t)
    \/ Collect
    \/ SetStopped

SpecStop == InitStop /\ [][NextStop]_vars

(***************************************************************************)
(* Properties                                                              *)
(***************************************************************************)
ManyReturned == run.kind = "many" /\ run.state = "returned" /\ run.jobs # <<>>

\* number of callback invocations made for descriptor d in the current call
Delivered(d) ==
    Cardinality({<<t, j>> \in (1..Len(tasks)) \X (1..2) :
                    /\ j <= Len(tasks[t].cbs)
                    /\ tasks[t].dataset = PyDict(d)})

\* C1: when an uncancelled get_many run that was given a callback has
\* returned, the callback has been invoked exactly once for every job
C1_CallbackExactlyOnce ==
    (ManyReturned /\ run.cb /\ ~run.retnone /\ ~run.cancelled) =>
        \A i \in 1..Len(run.jobs) : Delivered(run.jobs[i]) = 1

\* C2: get_many with n descriptors dispatches n invocations of get_one, the
\* i-th one with the i-th descriptor and the cache policy of the call
C2_OneInvocationPerJob ==
    (run.kind = "many" /\ run.jobs # <<>>) =>
        /\ Len(tasks) = Len(run.jobs)
        /\ \A i \in 1..Len(tasks) :
             (i <= Len(run.jobs) /\ tasks[i].pc = "pending") =>
                /\ tasks[i].dataset = PyDict(run.jobs[i])
                /\ tasks[i].xmlfilename = run.policy[1]
                /\ tasks[i].overwrite = run.policy[2]
                /\ tasks[i].del_xml = run.policy[3]
                /\ tasks[i].save2json = run.policy[4]
                /\ tasks[i].loadfromjson = run.policy[5]

\* C3: the list returned by an uncancelled run holds, at position i, the
\* outcome of the i-th submitted job (None, or the dataset of that descriptor)
C3_SubmissionOrder ==
    (ManyReturned /\ ~run.retnone /\ ~run.cancelled) =>
        /\ Len(run.results) = Len(run.jobs)
        /\ \A i \in 1..Len(run.results) :
             i <= Len(run.jobs) =>
                \/ run.results[i].isnone
                \/ run.results[i].ds.id = Desc(run.jobs[i]).identifier

\* C4: whatever happens to a job, get_many returns a list of outcomes
C4_RunNeverAborted ==
    ManyReturned => ~run.retnone

\* C5: once the stop flag is set, a job that has not started never starts
C5_NoStartAfterStop ==
    [][\A t \in 1..Len(tasks) :
          (stopped /\ run.kind = "many" /\ tasks[t].pc = "pending" /\ t <= Len(tasks')) =>
              tasks'[t].pc \in {"pending", "cancelled"}]_vars

\* C6: a job that was executing when the stop flag was set has, once it is
\* completed, delivered its callback
C6_InFlightDelivers ==
    \A t \in 1..Len(tasks) :
        (run.kind = "many" /\ run.cb /\ tasks[t].atStop /\ tasks[t].pc = "done") =>
            Len(tasks[t].cbs) = 1

\* C7: a job that failed on the network or in the parser returns None and
\* its callback received None
C7_FailureIsNull ==
    \A t \in 1..Len(tasks) :
        (tasks[t].pc = "done" /\ tasks[t].failed # "" /\ tasks[t].on_dataset.k = "fn") =>
            /\ tasks[t].result.isnone
            /\ tasks[t].cbs = <<ResNone>>

\* C8: one execution of get_one issues at most one GET for the document; a
\* failed GET ends the job with None, without a second GET and without a parse
C8_AtMostOneRequest ==
    \A t \in 1..Len(tasks) :
        /\ tasks[t].reqs <= 1
        /\ tasks[t].failed = "net" =>
              /\ tasks[t].pc = "done"
              /\ tasks[t].result.isnone
              /\ ~tasks[t].parsed
              /\ tasks[t].reqs = 1

\* a job missed its snapshot, issued its one GET, which failed, and returned None
C8_Witness ==
    \E t \in 1..Len(tasks) :
        tasks[t].miss /\ tasks[t].failed = "net" /\ tasks[t].pc = "done" /\ tasks[t].reqs = 1

\* C9: a job whose snapshot loaded issues no GET and does not run the XML
\* parser; the record it hands on and returns is the snapshot's content
C9_SnapshotHitNoNetwork ==
    \A t \in 1..Len(tasks) :
        tasks[t].loaded =>
            /\ tasks[t].reqs = 0
            /\ ~tasks[t].parsed
            /\ tasks[t].ds = JsonLoad(Content(LoadPath(tasks[t])))
            /\ \A j \in 1..Len(tasks[t].cbs) : tasks[t].cbs[j] = ResDS(tasks[t].ds)
            /\ (tasks[t].pc = "done" /\ ~tasks[t].raised) => tasks[t].result = ResDS(tasks[t].ds)

\* the second of two calls found the snapshot and returned it without a GET
C9_Witness ==
    /\ calls = 2
    /\ run.kind = "one"
    /\ \E t \in 1..Len(tasks) :
          /\ tasks[t].loaded /\ tasks[t].pc = "done" /\ ~tasks[t].raised
          /\ tasks[t].reqs = 0
          /\ tasks[t].result = ResDS(tasks[t].ds)

\* C10: a refresh whose snapshot did not load ends without a fatal error,
\* after exactly one GET of the list, with the catalog read from the answer
C10_FallsBackToNetwork ==
    (cat.state \in {"returned", "fatal"} /\ cat.miss) =>
        /\ cat.state = "returned"
        /\ cat.reqs = 1
        /\ cat.net # <<>> => datasets = CatItems(cat.net, cat.top[1].xml_only)

CatDone == cat.state \in {"returned", "fatal"}

\* C11: a refresh with overwrite = false whose snapshot loads issues no GET
\* and writes or removes no file; the catalog is the content of the snapshot
C11_SnapshotHitNoFetch ==
    (cat.state = "returned" /\ ~Truthy(cat.top[1].overwrite)
        /\ Truthy(cat.top[1].loadfromjson) /\ ~cat.miss) =>
        /\ cat.reqs = 0
        /\ cat.writes = 0
        /\ files = cat.before
        /\ datasets = cat.before[cat.top[1].loadfromjson.s].items

\* a refresh has been served from a snapshot that holds a descriptor
C11_Witness ==
    /\ cat.state = "returned" /\ ~Truthy(cat.top[1].overwrite)
    /\ Truthy(cat.top[1].loadfromjson) /\ ~cat.miss
    /\ cat.before[cat.top[1].loadfromjson.s].k = "cjson"
    /\ datasets # <<>>

\* C12 as stated: every refresh called with overwrite = true makes a GET
C12_OverwriteFetches ==
    (CatDone /\ Truthy(cat.top[1].overwrite)) => cat.reqs >= 1

\* C12 amended: a refresh called with overwrite = true and an empty
\* loadfromjson makes exactly one GET, whatever snapshot is on disk; a
\* well-formed answer becomes the catalog and, when save2json names a file,
\* the new snapshot
C12_OverwriteNoLoadFetches ==
    (CatDone /\ Truthy(cat.top[1].overwrite) /\ ~Truthy(cat.top[1].loadfromjson)) =>
        /\ cat.reqs = 1
        /\ cat.net # <<>> =>
              /\ cat.state = "returned"
              /\ datasets = CatItems(cat.net, cat.top[1].xml_only)
              /\ Truthy(cat.top[1].save2json) =>
                    /\ cat.writes = 1
                    /\ files[cat.top[1].save2json.s] = CatJsonFile(datasets)

\* a valid snapshot was on disk and the refresh replaced it by the answer
C12_Witness ==
    /\ cat.state = "returned" /\ Truthy(cat.top[1].overwrite)
    /\ ~Truthy(cat.top[1].loadfromjson)
    /\ cat.before["list_json.json"].k = "cjson"
    /\ cat.net # <<>> /\ cat.writes = 1
    /\ files["list_json.json"] # cat.before["list_json.json"]

\* the files other than the downloaded XML file are as they were at the call
SnapshotsUntouched ==
    \A f \in FileNames : f # cat.top[1].xmlfilename.s => files[f] = cat.before[f]

\* C13 as stated: after a failed GET the snapshot is unchanged, the caller
\* gets an error and the catalog is empty
C13_FetchFailureIsError ==
    (CatDone /\ cat.netfail) =>
        /\ SnapshotsUntouched
        /\ cat.state = "fatal"
        /\ datasets = <<>>

\* C13 amended: after a failed GET the snapshot is unchanged and none is
\* written, the call returns normally, and the catalog holds nothing of the
\* answer: it is empty or what the call of line 159 loaded from list_json.json
C13_FetchFailureReturns ==
    (CatDone /\ cat.netfail) =>
        /\ SnapshotsUntouched
        /\ cat.writes = 0
        /\ cat.state = "returned"
        /\ datasets \in {<<>>, cat.before["list_json.json"].items}

\* the GET failed while a valid snapshot was on disk
C13_Witness ==
    /\ cat.state = "returned" /\ cat.netfail /\ cat.reqs = 1
    /\ cat.before["list_json.json"].k = "cjson"
    /\ files["list_json.json"] = cat.before["list_json.json"]

\* C14: after a refresh made with xml_only set, every descriptor of the
\* catalog has the format "xml"
C14_OnlyXml ==
    (cat.state = "returned" /\ Truthy(cat.top[1].xml_only)) =>
        \A i \in 1..Len(datasets) : Desc(datasets[i]).format = "xml"

(***************************************************************************)
(* Properties of the parser                                                *)
(***************************************************************************)
\* a get_one that has run the parser on a document and has ended
ParsedDone(t) == tasks[t].pc = "done" /\ tasks[t].parsed /\ ~tasks[t].raised /\ tasks[t].doc # ""

\* get_one returned the record it built (a callback that raises at lines
\* 606-610 is called again at 616-621 and turns the result into None)
Produced(t) ==
    /\ tasks[t].failed = ""
    /\ Len(tasks[t].cbs) < 2 => tasks[t].result = ResDS(tasks[t].ds)

\* get_one returned None after the parse raised, and every callback call
\* received the record as far as it was filled
Aborted(t) ==
    /\ tasks[t].failed = "parse"
    /\ tasks[t].result = ResNone
    /\ \A j \in 1..Len(tasks[t].cbs) : tasks[t].cbs[j] = ResDS(tasks[t].ds)

\* the header and the code lists of GoodDoc, as the record holds them
HeaderKept(ds) ==
    /\ ds.prepared = Time(997, 0)
    /\ ds.id = "a"
    /\ ds.codes = << [id |-> "c1", name |-> "N1", values |-> << <<"k1", "L1">>, <<"k2", "L2">> >>] >>

YearOracle(x) ==
    IF ~x.has THEN 0
    ELSE IF x.t = <<"2", "0", "1", "9">> THEN 2019
    ELSE IF x.t = <<" ", "2", "0", "2", "0">> THEN 2020
    ELSE 0

ValueOracle(x) ==
    IF ~x.has THEN Float(0, 0)
    ELSE IF x.t = <<"1", ",", "5">> THEN Float(15, 1)
    ELSE IF x.t = <<"1", " ", "0", "0", "0", ",", "5", "0">> THEN Float(10005, 1)
    ELSE Float(0, 0)

UnitOracle(x) == IF ~x.has THEN "" ELSE IF x.vals[1][1] = "EI" THEN "u" ELSE "w"
PeriodOracle(x) == IF ~x.has THEN "" ELSE IF x.vals[1][1] = "EI" THEN "p" ELSE "q"

\* the number of observations expected of a series, and of the first n series
ObsCount(sr) == IF sr.key.has THEN Len(sr.key.vals) ELSE 1

RECURSIVE ObsBefore(_, _)
ObsBefore(series, n) == IF n = 0 THEN 0 ELSE ObsBefore(series, n - 1) + ObsCount(series[n])

\* the documents whose only defects are years and values of series
LenientDocs == {"good", "two", "badyear", "noyear", "naval", "noval", "dotsval"}

\* C16: a missing or unparsable year gives 0, a missing or unparsable value
\* 0.0, the observations of the series are emitted all the same and the
\* dataset is produced; "1,5" gives 1.5 and "n/a" gives 0.0
C16_YearValueLeniency ==
    \A t \in 1..Len(tasks) :
        (ParsedDone(t) /\ tasks[t].doc \in LenientDocs) =>
            LET sr == Doc(tasks[t].doc).series
                data == tasks[t].ds.data
            IN /\ Produced(t)
               /\ Len(data) = ObsBefore(sr, Len(sr))
               /\ \A i \in 1..Len(sr) : \A j \in 1..ObsCount(sr[i]) :
                     /\ data[ObsBefore(sr, i - 1) + j].year = YearOracle(sr[i].year)
                     /\ data[ObsBefore(sr, i - 1) + j].value = ValueOracle(sr[i].val)

\* the value "n/a" of the first series was read as 0.0 and "1 000,50" of the
\* second as 1000.5
C16_Witness ==
    \E t \in 1..Len(tasks) :
        /\ ParsedDone(t) /\ tasks[t].doc = "naval"
        /\ ~tasks[t].result.isnone
        /\ Len(tasks[t].result.ds.data) = 3
        /\ tasks[t].result.ds.data[1].value = Float(0, 0)
        /\ tasks[t].result.ds.data[1].year = 2019
        /\ tasks[t].result.ds.data[3].value = Float(10005, 1)

\* the documents with one malformed date or number of the metadata
FieldDocs == {"badprep", "badnext", "badupd", "badstart", "badend"}

\* C17: a malformed Prepared, next-release, LastUpdate or DataRange text does
\* not keep get_one from producing the dataset
C17_FieldDegradation ==
    \A t \in 1..Len(tasks) :
        (ParsedDone(t) /\ tasks[t].doc \in FieldDocs) => Produced(t)

\* C18 as stated: every series gives as many observations as its key has
\* keyed values, each with the unit, period, year and value of the series
C18_OnePerKeyedValue ==
    \A t \in 1..Len(tasks) :
        (ParsedDone(t) /\ tasks[t].failed = "") =>
            LET sr == Doc(tasks[t].doc).series
                data == tasks[t].ds.data
                before(n) == Len(_get_data(SubSeq(sr, 1, n), <<>>))
            IN \A i \in 1..Len(sr) :
                 /\ before(i) - before(i - 1) = Len(sr[i].key.vals)
                 /\ \A j \in (before(i - 1) + 1)..before(i) :
                       /\ data[j].unit = UnitOracle(sr[i].attrs)
                       /\ data[j].period = PeriodOracle(sr[i].attrs)
                       /\ data[j].year = YearOracle(sr[i].year)
                       /\ data[j].value = ValueOracle(sr[i].val)

\* C18 amended: a series whose key holds k keyed values gives k
\* observations, a series without a key gives one, with an empty classifier
\* and class; each has the unit, period, year and value of the series
C18_OnePerKeyedValueOrOne ==
    \A t \in 1..Len(tasks) :
        (ParsedDone(t) /\ tasks[t].failed = "") =>
            LET sr == Doc(tasks[t].doc).series
                data == tasks[t].ds.data
            IN /\ Len(data) = ObsBefore(sr, Len(sr))
               /\ \A i \in 1..Len(sr) : \A j \in 1..ObsCount(sr[i]) :
                     LET o == data[ObsBefore(sr, i - 1) + j]
                     IN /\ o.unit = UnitOracle(sr[i].attrs)
                        /\ o.period = PeriodOracle(sr[i].attrs)
                        /\ o.year = YearOracle(sr[i].year)
                        /\ o.value = ValueOracle(sr[i].val)
                        /\ ~sr[i].key.has => (o.classifier = "" /\ o.class = "")

\* a document with a series of two keyed values and a series of one gave
\* three observations
C18_Witness ==
    \E t \in 1..Len(tasks) :
        /\ ParsedDone(t) /\ tasks[t].doc = "two" /\ tasks[t].failed = ""
        /\ Len(tasks[t].ds.data) = 3
        /\ tasks[t].ds.data[1].class = "L1" /\ tasks[t].ds.data[2].class = "L2"
        /\ tasks[t].ds.data[2].unit = "u" /\ tasks[t].ds.data[3].unit = "w"

\* the record whose json.dump is the snapshot ds
Original(ds) ==
    [ds EXCEPT !.seq = "tuple", !.prepared.form = "dt", !.next.form = "dt", !.updated.form = "dt"]

\* equality of two records in every field, but for the microseconds of the
\* timestamps and for the kind of their sequences (tuple or list)
SameButSubsecond(a, b) ==
    LET cut(ds) == [ds EXCEPT !.prepared.us = 0, !.next.us = 0, !.updated.us = 0, !.seq = "seq"]
    IN cut(a) = cut(b)

\* C19: when get_one reads a snapshot that a successful parse has saved, it
\* loads it, and the record equals the parsed one but for the sub-second
\* part of the timestamps
C19_RoundTrip ==
    [][\A t \in 1..Len(tasks) :
          (/\ tasks[t].pc = "loadjson"
           /\ Content(LoadPath(tasks[t])).k = "json"
           /\ t <= Len(tasks') /\ tasks'[t].pc # "loadjson") =>
             /\ tasks'[t].loaded
             /\ SameButSubsecond(tasks'[t].ds, Original(Content(LoadPath(tasks[t])).ds))]_vars

\* the call was given a list of names whose length is not the number of jobs
LengthMismatch ==
    \E i \in {1, 4, 5} :
        is_iterable(run.policy[i]) /\ Len(run.policy[i].l) # Len(run.jobs)

\* C20: get_many given a list of names that is shorter or longer than the
\* list of descriptors returns None at once and dispatches no job
C20_LengthMismatchFails ==
    (run.kind = "many" /\ run.jobs # <<>> /\ LengthMismatch) =>
        /\ run.state = "returned" /\ run.retnone
        /\ tasks = <<>>

(***************************************************************************)
(* Properties of the catalog filters                                       *)
(***************************************************************************)
FilterCalled == run.kind \in {"only_new", "only_existing"}

\* C21: each filter returns the set difference (only_new) or the
\* intersection (only_existing) of the candidate titles with the names in
\* the database; for the same inputs the two results are disjoint and
\* together are the candidate titles; a filter call leaves the catalog and
\* the candidate list as they were
C21_FilterIsSetDifference ==
    FilterCalled =>
        LET new == filter_datasets_only_new(run.res, run.arg)
            old == filter_datasets_only_existing(run.res, run.arg)
            cand == CandidateTitles(run.arg)
            names == IF run.res.ok THEN run.res.names ELSE {}
        IN /\ run.out = IF run.kind = "only_new" THEN new ELSE old
           /\ \A t \in cand : (t \in new <=> t \notin names) /\ (t \in old <=> t \in names)
           /\ new \subseteq cand /\ old \subseteq cand
           /\ new \cap old = {}
           /\ new \cup old = cand
           /\ datasets = run.catalog

C21_Witness ==
    /\ run.kind = "only_existing"
    /\ run.arg = PyNone
    /\ run.res = FetchRows({"ta", "te"})
    /\ datasets = <<1, 2, 3>>
    /\ run.out = {"ta"}

(***************************************************************************)
(* Properties of the classifier tree                                       *)
(***************************************************************************)
\* the trimmed segments of the classifier strings, written out by hand
TrimmedSegments(cs) ==
    CASE cs = <<"/", "A">> -> << <<>>, <<"A">> >>
      [] cs = <<"A">> -> << <<"A">> >>
      [] cs = <<"A", "/", "/", "B">> -> << <<"A">>, <<>>, <<"B">> >>
      [] cs = <<"A", "/", "B", " ">> -> << <<"A">>, <<"B">> >>
      [] cs = <<"A", "/", "B", "/", "C">> -> << <<"A">>, <<"B">>, <<"C">> >>
      [] cs = <<"A", "/", "B", "/", "D">> -> << <<"A">>, <<"B">>, <<"D">> >>
      [] cs = <<"A", "/", "E">> -> << <<"A">>, <<"E">> >>
      [] cs = <<"F">> -> << <<"F">> >>
      [] cs = <<"F", "/", "B">> -> << <<"F">>, <<"B">> >>

\* the path tuple of a row under the settings of the call: the trimmed
\* segments without the root when ignore_root is set, cut where the path
\* reaches max_levels segments (the root counted)
PathTuple(cs) ==
    LET all == TrimmedSegments(cs)
        cut == IF run.max_levels.has /\ run.max_levels.n < Len(all)
               THEN SubSeq(all, 1, run.max_levels.n) ELSE all
    IN IF run.ignore_root THEN (IF cut = <<>> THEN <<>> ELSE Tail(cut)) ELSE cut

IsPrefix(p, t) == Len(p) <= Len(t) /\ \A i \in 1..Len(p) : p[i] = t[i]

\* every non-empty prefix of the path tuples of the rows
AllPrefixes ==
    UNION {{SubSeq(PathTuple(run.dsets[k].classifier), 1, i) :
                i \in 1..Len(PathTuple(run.dsets[k].classifier))} :
           k \in 1..Len(run.dsets)}

TreeCalled == run.kind = "get_classificator"

\* C22: the prefix tuples returned by get_classificator are the non-empty
\* prefixes of the path tuples of the rows: each of them once, nothing else
C22_NodesArePrefixes ==
    TreeCalled =>
        /\ {run.out[k].t : k \in 1..Len(run.out)} = AllPrefixes
        /\ \A k, m \in 1..Len(run.out) : run.out[k].t = run.out[m].t => k = m

C22_Witness ==
    /\ TreeCalled
    /\ ~run.ignore_root /\ ~run.max_levels.has
    /\ Len(run.dsets) = 2
    /\ run.dsets[1].classifier = <<"A", "/", "B", " ">>
    /\ run.dsets[2].classifier = <<"A", "/", "B", "/", "D">>
    /\ Len(run.out) = 3
    /\ run.out[3].t = << <<"A">>, <<"B">>, <<"D">> >>

Rendered == run.kind \in {"collect_classificator", "output_classificator"}

\* the whole tree was rendered (max_categories cuts nothing off)
RenderedWhole == Rendered /\ ~run.o.max_categories.has

\* the category entries of the rendering, in the order of their emission
IsCategory(n) == IF run.kind = "collect_classificator" THEN n.id = -1 ELSE n.kind = "cat"

CategoryNodes == SelectSeq(run.out, IsCategory)

\* C23: the rendering emits one category entry for every non-empty prefix of
\* every path tuple, and none twice (also when a segment name occurs at the
\* same depth under two parents)
C23_EveryPrefixRendered ==
    RenderedWhole =>
        /\ {CategoryNodes[k].path : k \in 1..Len(CategoryNodes)} = AllPrefixes
        /\ \A k, m \in 1..Len(CategoryNodes) :
              CategoryNodes[k].path = CategoryNodes[m].path => k = m

\* the ids of the rows whose path tuple starts with p
RowsUnder(p) == {run.dsets[k].id : k \in {x \in 1..Len(run.dsets) : IsPrefix(p, PathTuple(run.dsets[x].classifier))}}

\* the rows of the example: A/B/C, A/B/D, A/E, F, F
ExampleRows ==
    /\ Len(run.dsets) = 5
    /\ run.dsets[1].classifier = <<"A", "/", "B", "/", "C">>
    /\ run.dsets[2].classifier = <<"A", "/", "B", "/", "D">>
    /\ run.dsets[3].classifier = <<"A", "/", "E">>
    /\ run.dsets[4].classifier = <<"F">>
    /\ run.dsets[5].classifier = <<"F">>
    /\ ~run.ignore_root /\ ~run.max_levels.has

\* the counts of the example: A=3, A/B=2, A/B/C=1, A/B/D=1, A/E=1, F=2
ExampleCounts ==
    << [t |-> << <<"A">> >>, n |-> 3],
       [t |-> << <<"A">>, <<"B">> >>, n |-> 2],
       [t |-> << <<"A">>, <<"B">>, <<"C">> >>, n |-> 1],
       [t |-> << <<"A">>, <<"B">>, <<"D">> >>, n |-> 1],
       [t |-> << <<"A">>, <<"E">> >>, n |-> 1],
       [t |-> << <<"F">> >>, n |-> 2] >>

CountsOf(tout) == [k \in 1..Len(tout) |-> [t |-> tout[k].t, n |-> Len(tout[k].ids)]]

\* C24: the ids listed for a prefix tuple are the rows whose path tuple has
\* that prefix, each once, so a longer prefix never has more of them than a
\* shorter one; a category entry of collect_classificator carries that
\* number as its count; the rows of the example give the counts of the
\* example
C24_CountsAreCumulative ==
    /\ TreeCalled =>
        /\ \A k \in 1..Len(run.out) :
              /\ {run.out[k].ids[n] : n \in 1..Len(run.out[k].ids)} = RowsUnder(run.out[k].t)
              /\ Len(run.out[k].ids) = Cardinality(RowsUnder(run.out[k].t))
        /\ \A k, m \in 1..Len(run.out) :
              IsPrefix(run.out[k].t, run.out[m].t) => Len(run.out[k].ids) >= Len(run.out[m].ids)
        /\ ExampleRows => CountsOf(run.out) = ExampleCounts
    /\ run.kind = "collect_classificator" =>
        \A k \in 1..Len(CategoryNodes) :
            CategoryNodes[k].count = Cardinality(RowsUnder(CategoryNodes[k].path))

C24_Witness ==
    /\ TreeCalled
    /\ ExampleRows
    /\ Len(run.out) = 6
    /\ run.out[1].ids = <<1, 2, 3>>
    /\ run.out[2].ids = <<1, 2>>
    /\ run.out[6].ids = <<4, 5>>

\* the dataset entries of the rendering
IsLeaf(n) == IF run.kind = "collect_classificator" THEN n.id # -1 ELSE n.kind = "leaf"

LeafNodes == SelectSeq(run.out, IsLeaf)

\* the rendering lists all the ids of every category (max_ds cuts nothing off)
RenderedAll == RenderedWhole /\ ~run.o.max_ds.has

\* C25: every dataset is emitted as a leaf exactly once, under the category
\* that is its full path tuple and one level below it, and under no ancestor
C25_LeafAtFullPathOnce ==
    RenderedAll =>
        /\ \A k \in 1..Len(run.dsets) :
              PathTuple(run.dsets[k].classifier) # <<>> =>
                  Cardinality({n \in 1..Len(LeafNodes) : LeafNodes[n].id = run.dsets[k].id}) = 1
        /\ \A n \in 1..Len(LeafNodes) :
              \E k \in 1..Len(run.dsets) :
                  /\ run.dsets[k].id = LeafNodes[n].id
                  /\ LeafNodes[n].path = PathTuple(run.dsets[k].classifier)
                  /\ LeafNodes[n].level = Len(LeafNodes[n].path)

\* C26: no prefix tuple returned by get_classificator has an empty segment,
\* and no segment keeps a blank at either end
C26_SegmentsTrimmedNonEmpty ==
    TreeCalled =>
        \A k \in 1..Len(run.out) : \A i \in 1..Len(run.out[k].t) :
            LET seg == run.out[k].t[i]
            IN seg # <<>> /\ seg[1] # " " /\ seg[Len(seg)] # " "

\* C30: every row of the query has its id in the id list of at least one
\* prefix tuple returned by get_classificator, whatever ignore_root and
\* max_levels are
C30_EveryDatasetPlaced ==
    TreeCalled =>
        \A r \in 1..Len(run.dsets) :
            \E k \in 1..Len(run.out) : \E n \in 1..Len(run.out[k].ids) :
                run.out[k].ids[n] = run.dsets[r].id

(***************************************************************************)
(* Properties of the stop flag                                             *)
(***************************************************************************)
\* a get_many that got as far as the dispatch of line 726
Dispatched == run.kind = "many" /\ run.jobs # <<>>

\* C28: a run that dispatches has cleared the stop flag: whatever was
\* requested before the call is gone, the flag is set again only by a
\* set_stopped(True) made during the run, and the tasks of the run exist
C28_RunClearsStopFlag ==
    Dispatched =>
        /\ tasks # <<>>
        /\ stopped => run.stopSeen

C28_Witness ==
    /\ Dispatched
    /\ run.state = "running"
    /\ ~stopped /\ ~run.stopSeen
    /\ \E t \in 1..Len(tasks) : Running(tasks[t])

(***************************************************************************)
(* Properties of the dataset snapshots                                     *)
(***************************************************************************)
SnapshotNames == {"a.json", "b.json", "dataset.json", "alt.json"}

\* the job is at line 588 with a record that the parser filled completely
FullyParsed(a) == a.pc = "persist" /\ a.parsed /\ a.failed = "" /\ a.ds.fill = "full"

\* C29: a step that creates or changes a snapshot file is the write of a job
\* whose document was parsed to the end, and it writes that job's record; a
\* job whose download or parse failed writes none
C29_SnapshotOnlyAfterFullParse ==
    [][\A f \in SnapshotNames :
          files'[f] # files[f] =>
              \E t \in 1..Len(tasks) :
                  /\ FullyParsed(tasks[t])
                  /\ files'[f] = JsonFile(JsonDump(tasks[t].ds))]_vars

\* a job with save2json='auto' whose parse was aborted has ended and the
\* snapshot that was there before is as it was
C29_Witness ==
    /\ Len(tasks) = 1
    /\ tasks[1].pc = "done" /\ tasks[1].failed = "parse" /\ tasks[1].doc = "nodesc"
    /\ IsAuto(tasks[1].save2json)
    /\ files["a.json"] = JsonFile(JsonDump(ParseDoc("good", 1, InitDs(PyDict(1))).ds))

(***************************************************************************)
(* Properties of concurrent jobs                                           *)
(***************************************************************************)
\* a job without callback that has ended after downloading its document
Downloaded(a) == a.pc = "done" /\ a.reqs = 1 /\ a.dataset.k = "dict" /\ ~Truthy(a.on_dataset)

\* what such a job returns when no other job runs: the record parsed from
\* the document the server sent it, None when the GET failed, the document
\* does not parse or the descriptor has no identifier (KeyError at line 552)
SoloOutcome(a) ==
    LET p == ParseDoc(a.got, a.dataset.d, InitDs(a.dataset))
    IN IF a.got = "" \/ ~Desc(a.dataset.d).hasId \/ ~p.ok
       THEN ResNone ELSE ResDS(p.ds)

\* C27: a job returns what it would return alone, whatever the other jobs
\* of the run do, also when they use the same file names
C27_JobsIndependent ==
    \A t \in 1..Len(tasks) : Downloaded(tasks[t]) => tasks[t].result = SoloOutcome(tasks[t])

====
